---- MODULE Spec2Model ----
(***************************************************************************)
(* NodeStack: the remote-command (RCON) client of src/utils/rcon.js.       *)
(* One RconClient object, the sockets its connect() calls create, the      *)
(* server side of each socket, and the promises handed to the callers.     *)
(* Bytes are 0..255, a body is a sequence of ASCII bytes, a packet on the  *)
(* wire is a sequence of bytes.                                            *)
(***************************************************************************)
EXTENDS Integers, Sequences, FiniteSets, TLC

\* ---------------------------------------------------------------- bounds
MaxConnects == 2        \* connect() calls on the one client
MaxCommands == 3        \* sendCommand() calls on the one client
MaxWire == 1            \* packets in flight on one socket at a time
SplitAt == 6            \* where a read may cut the bytes in flight (inside the id field)

\* What the environment of one run may do: many commands on one connection
\* whose reads may cut a packet, or a reconnect with one command and whole reads.
Profiles == {[connects |-> 1, commands |-> MaxCommands, split |-> TRUE],
             [connects |-> MaxConnects, commands |-> 1, split |-> FALSE]}

\* ------------------------------------------------------------- constants
\* mutant: the loop asks for one byte more than the smallest packet
MinPacketTooLarge == 12 + 3

MinPacket == 12         \* handleData loop threshold ("Min packet size")
HeaderLen == 10         \* id + type + 2-byte pad, counted by the length field
AuthType == 3
CommandType == 2

Password == <<112>>                     \* "p"
Commands == {<<>>, <<108, 115>>}        \* "", "ls"

\* The body the server answers request id with: "" for -1, else the digit of id,
\* twice when id is even (bodies of three lengths, one per id).
ResponseBody(id) ==
    IF id < 1 THEN <<>>
    ELSE IF id % 2 = 0 THEN <<48 + id, 48 + id>> ELSE <<48 + id>>

\* ------------------------------------------------------------ byte level
\* mutant: the four bytes most significant first
writeInt32BE(v) ==
    <<(v \div 16777216) % 256, (v \div 65536) % 256, (v \div 256) % 256, v % 256>>

\* Buffer.writeInt32LE(v, off): the four bytes of the two's complement of v,
\* least significant first (\div rounds down, % is never negative).
writeInt32LE(v) ==
    <<v % 256, (v \div 256) % 256, (v \div 65536) % 256, (v \div 16777216) % 256>>

\* Buffer.readInt32LE(off): signed 32-bit value of the four bytes at off (0-based).
readInt32LE(buf, off) ==
    LET top == IF buf[off + 4] >= 128 THEN buf[off + 4] - 256 ELSE buf[off + 4]
    IN  buf[off + 1] + 256 * buf[off + 2] + 65536 * buf[off + 3] + 16777216 * top

\* Buffer.subarray(start, end): negative indices count from the end, both are
\* clamped to the buffer, an empty range gives the empty buffer.
subarray(buf, start, end) ==
    LET n  == Len(buf)
        cl(i) == IF i < 0 THEN (IF n + i < 0 THEN 0 ELSE n + i)
                 ELSE IF i > n THEN n ELSE i
        s  == cl(start)
        e  == cl(end)
    IN  IF e <= s THEN <<>> ELSE SubSeq(buf, s + 1, e)

\* Buffer.from(body, 'utf8') for an ASCII string: one byte per character.
BufferFrom(body) == [i \in 1..Len(body) |-> body[i] % 256]

\* buf.toString('utf8', start, end): an empty string when end <= start; a byte
\* that is not ASCII decodes to the replacement character U+FFFD.
toString(buf, start, end) ==
    LET s == IF start > Len(buf) THEN Len(buf) ELSE start
        e == IF end > Len(buf) THEN Len(buf) ELSE end
        raw == IF e <= s THEN <<>> ELSE SubSeq(buf, s + 1, e)
    IN  [i \in 1..Len(raw) |-> IF raw[i] < 128 THEN raw[i] ELSE 65533]

\* The buffer send() builds: length, id, type, body, two zero bytes.
EncodePacket(id, type, body) ==
    LET bodyBuf == BufferFrom(body)
        len == HeaderLen + Len(bodyBuf)
    IN  writeInt32LE(len) \o writeInt32LE(id) \o writeInt32LE(type) \o bodyBuf \o <<0, 0>>

\* ----------------------------------------------------------------- state
VARIABLES
    socket,           \* this.socket: 0 is null, n is the socket of the n-th connect()
    requestId,        \* this.requestId
    isAuthenticated,  \* this.isAuthenticated
    queue,            \* this.queue: request id -> index in calls of the waiting send()
    buffer,           \* this.buffer: residual receive bytes
    sockSt,           \* per socket: "none", "connecting", "open", "closing", "closed"
    wire,             \* per socket: bytes the server sent that no 'data' event delivered yet
    conn,             \* per connect() call: state of the promise it returned
    calls,            \* one record per send() call: its promise, its timer, what it wrote
    decoded,          \* <<id, body>> of the packets the step just taken decoded
    budget,           \* what the environment of this run may do (a profile)
    stream,           \* the packets the peer sends in a framing run, fixed at the start
    fault,            \* an exception escaped a listener or a call (handleData threw)
    tree,             \* the tagged value whose encoding is handed to an NbtReader
    reader,           \* the NbtReader object: this.buffer, this.offset
    parsed,           \* how reader.parse() ended: not called, returned, thrown
    snbt,             \* the argument of a parseSNBT call
    converted,        \* how parseSNBT(snbt) ended: not called, returned, thrown
    stdin,            \* the commands written to the managed process's stdin, in order
    awaiting          \* the send() calls a 'send-command' handler is awaiting

\* The remote-command client and its environment; the two parsers.
rcon == <<socket, requestId, isAuthenticated, queue, buffer, sockSt, wire, conn,
          calls, decoded, budget, stream, fault>>

codec == <<tree, reader, parsed, snbt, converted>>

vars == <<socket, requestId, isAuthenticated, queue, buffer, sockSt, wire, conn,
          calls, decoded, budget, stream, fault, tree, reader, parsed, snbt,
          converted, stdin, awaiting>>

\* No parser has been handed anything.
NoCodec ==
    /\ tree = <<>>
    /\ reader = [buffer |-> <<>>, offset |-> 0]
    /\ parsed = [st |-> "none"]
    /\ snbt = <<>>
    /\ converted = [st |-> "none"]

Sockets == 1..MaxConnects

\* new RconClient(host, port, password)
Init ==
    /\ socket = 0
    /\ requestId = 1
    /\ isAuthenticated = FALSE
    /\ queue = <<>>
    /\ buffer = <<>>
    /\ sockSt = [n \in Sockets |-> "none"]
    /\ wire = [n \in Sockets |-> <<>>]
    /\ conn = [n \in Sockets |-> "none"]
    /\ calls = <<>>
    /\ decoded = <<>>
    /\ budget \in Profiles
    /\ stream = <<>>
    /\ fault = FALSE
    /\ NoCodec
    /\ stdin = <<>>
    /\ awaiting = {}

\* mutant: the entry stays in the map
MapDeleteNothing(m, id) == m

\* mutant: the delete clears the whole map
MapDeleteAll(m, id) == <<>>

\* Map.delete(id)
MapDelete(m, id) == [i \in DOMAIN m \ {id} |-> m[i]]

\* Map.set(id, v)
MapSet(m, id, v) == [i \in DOMAIN m \cup {id} |-> IF i = id THEN v ELSE m[i]]

\* Map.has(id)
MapHas(m, id) == id \in DOMAIN m

\* mutant: the oldest waiter, whatever the id of the packet
MapGetOldest(m, id) == m[CHOOSE i \in DOMAIN m : \A j \in DOMAIN m : i <= j]

\* Map.get(id): the waiter stored under the id of the packet
MapGet(m, id) == m[id]

\* mutant: the counter is not advanced
NextRequestIdStuck(r) == r

\* this.requestId++: the counter after the id was taken
NextRequestId(r) == r + 1

\* A promise settles once: reject/resolve on a settled promise does nothing.
Settle(p, outcome) == IF p = "pending" THEN outcome ELSE p

\* reject(new Error(..)) of the send() promise of call c
RejectCall(cs, c, err) ==
    [cs EXCEPT ![c].st = IF @ = "pending" THEN "rejected" ELSE @,
               ![c].err = IF cs[c].st = "pending" THEN err ELSE @]

\* resolve(body) of the send() promise of call c
ResolveCall(cs, c, body) ==
    [cs EXCEPT ![c].st = IF @ = "pending" THEN "resolved" ELSE @,
               ![c].val = IF cs[c].st = "pending" THEN body ELSE @]

\* ------------------------------------------------------------- send(type, body)
\* k is the connect() call whose .then/.catch hang on this send (0: a command).
\* A call record keeps what send() did: id 0 and buf <<>> when nothing was written.
send(type, body, k) ==
    IF socket = 0
    THEN \* if (!this.socket) return reject(new Error('Not connected'))
         /\ calls' = Append(calls, [type |-> type, body |-> body, id |-> 0,
                                    st |-> "rejected", val |-> <<>>,
                                    err |-> "NotConnected", timer |-> FALSE,
                                    conn |-> k, sock |-> 0, buf |-> <<>>])
         \* .catch(reject) of connect()
         /\ conn' = IF k = 0 THEN conn
                    ELSE [conn EXCEPT ![k] = Settle(@, "NotConnected")]
         /\ UNCHANGED <<requestId, queue>>
    ELSE LET id == requestId
         IN  /\ requestId' = NextRequestId(requestId)
             /\ calls' = Append(calls, [type |-> type, body |-> body, id |-> id,
                                        st |-> "pending", val |-> <<>>, err |-> "",
                                        timer |-> TRUE, conn |-> k, sock |-> socket,
                                        buf |-> EncodePacket(id, type, body)])
             /\ queue' = MapSet(queue, id, Len(calls) + 1)
             /\ conn' = conn

\* sendCommand(cmd)
sendCommand(cmd) ==
    /\ ~fault
    /\ UNCHANGED <<codec, stdin, awaiting>>
    /\ Cardinality({c \in DOMAIN calls : calls[c].type = CommandType}) < budget.commands
    /\ send(CommandType, cmd, 0)
    /\ decoded' = <<>>
    /\ UNCHANGED <<socket, isAuthenticated, buffer, sockSt, wire, budget, stream, fault>>

\* connect(): a new socket with its three listeners, then socket.connect(..)
connect ==
    \E n \in Sockets :
        /\ ~fault
        /\ UNCHANGED <<codec, stdin, awaiting>>
        /\ n <= budget.connects
        /\ sockSt[n] = "none"
        /\ \A m \in Sockets : m < n => sockSt[m] # "none"
        /\ socket' = n
        /\ sockSt' = [sockSt EXCEPT ![n] = "connecting"]
        /\ conn' = [conn EXCEPT ![n] = "pending"]
        /\ decoded' = <<>>
        /\ UNCHANGED <<requestId, isAuthenticated, queue, buffer, wire, calls,
                       budget, stream, fault>>

\* the callback of socket.connect(): the transport of socket n is open
onConnect(n) ==
    /\ ~fault
    /\ UNCHANGED <<codec, stdin, awaiting>>
    /\ sockSt[n] = "connecting"
    /\ sockSt' = [sockSt EXCEPT ![n] = "open"]
    /\ send(AuthType, Password, n)
    /\ decoded' = <<>>
    /\ UNCHANGED <<socket, isAuthenticated, buffer, wire, budget, stream, fault>>

\* socket.on('error'): reject(err) of the connect() that made socket n; the
\* stream is destroyed and its 'close' follows later.
onError(n) ==
    /\ ~fault
    /\ UNCHANGED <<codec, stdin, awaiting>>
    /\ sockSt[n] \in {"connecting", "open"}
    /\ sockSt' = [sockSt EXCEPT ![n] = "closing"]
    /\ conn' = [conn EXCEPT ![n] = Settle(@, "ConnectFailed")]
    /\ decoded' = <<>>
    /\ UNCHANGED <<socket, requestId, isAuthenticated, queue, buffer, wire, calls,
                   budget, stream, fault>>

\* the peer ends the stream after all its bytes were read; there is no 'end'
\* listener, the socket closes itself.
onEnd(n) ==
    /\ ~fault
    /\ UNCHANGED <<codec, stdin, awaiting>>
    /\ sockSt[n] = "open"
    /\ wire[n] = <<>>
    /\ sockSt' = [sockSt EXCEPT ![n] = "closing"]
    /\ decoded' = <<>>
    /\ UNCHANGED <<socket, requestId, isAuthenticated, queue, buffer, wire, conn,
                   calls, budget, stream, fault>>

\* mutant: the close listener also cancels the timers of the waiting requests
onCloseCancelling(n) ==
    /\ ~fault
    /\ UNCHANGED <<codec, stdin, awaiting>>
    /\ sockSt[n] = "closing"
    /\ sockSt' = [sockSt EXCEPT ![n] = "closed"]
    /\ isAuthenticated' = FALSE
    /\ socket' = 0
    /\ wire' = [wire EXCEPT ![n] = <<>>]
    /\ decoded' = <<>>
    /\ calls' = [c \in DOMAIN calls |-> [calls[c] EXCEPT !.timer = FALSE]]
    /\ UNCHANGED <<requestId, queue, buffer, conn, budget, stream, fault>>

\* socket.on('close'); bytes still in flight are never delivered
onClose(n) ==
    /\ ~fault
    /\ UNCHANGED <<codec, stdin, awaiting>>
    /\ sockSt[n] = "closing"
    /\ sockSt' = [sockSt EXCEPT ![n] = "closed"]
    /\ isAuthenticated' = FALSE
    /\ socket' = 0
    /\ wire' = [wire EXCEPT ![n] = <<>>]
    /\ decoded' = <<>>
    /\ UNCHANGED <<requestId, queue, buffer, conn, calls, budget, stream, fault>>

\* mutant: no test of this.socket, the call on a null socket throws
disconnectUnguarded ==
    /\ ~fault
    /\ UNCHANGED <<codec, stdin, awaiting>>
    /\ IF socket # 0
       THEN sockSt' = [sockSt EXCEPT ![socket] = "closing"] /\ fault' = fault
       ELSE sockSt' = sockSt /\ fault' = TRUE
    /\ decoded' = <<>>
    /\ UNCHANGED <<socket, requestId, isAuthenticated, queue, buffer, wire, conn,
                   calls, budget, stream>>

\* disconnect(): socket.end(); socket.destroy()
disconnect ==
    /\ ~fault
    /\ UNCHANGED <<codec, stdin, awaiting>>
    /\ IF socket # 0
       THEN sockSt' = [sockSt EXCEPT ![socket] = "closing"]
       ELSE sockSt' = sockSt
    /\ decoded' = <<>>
    /\ UNCHANGED <<socket, requestId, isAuthenticated, queue, buffer, wire, conn,
                   calls, budget, stream, fault>>

\* the setTimeout callback of call c
onTimeout(c) ==
    /\ ~fault
    /\ UNCHANGED <<codec, stdin, awaiting>>
    /\ calls[c].timer
    /\ LET id == calls[c].id
           k == calls[c].conn
       IN  IF MapHas(queue, id)
           THEN /\ queue' = MapDelete(queue, id)
                /\ calls' = [RejectCall(calls, c, "Timeout") EXCEPT ![c].timer = FALSE]
                \* .catch(reject) of connect()
                /\ conn' = IF k = 0 \/ calls[c].st # "pending" THEN conn
                           ELSE [conn EXCEPT ![k] = Settle(@, "Timeout")]
           ELSE /\ calls' = [calls EXCEPT ![c].timer = FALSE]
                /\ UNCHANGED <<queue, conn>>
    /\ decoded' = <<>>
    /\ UNCHANGED <<socket, requestId, isAuthenticated, buffer, sockSt, wire,
                   budget, stream, fault>>

\* ------------------------------------------------------ handleData(data)
\* One pass of the while loop on the record
\*   [buffer, queue, calls, decoded, fault];
\* Buffer.readInt32LE throws a RangeError when the four bytes are not there.
RECURSIVE handleLoop(_)
handleLoop(h) ==
    IF Len(h.buffer) < MinPacket THEN h
    ELSE
    LET len == readInt32LE(h.buffer, 0)
    IN  IF Len(h.buffer) - 4 < len THEN h          \* wait for more data
        ELSE
        LET packet == subarray(h.buffer, 0, len + 4)
            rest   == subarray(h.buffer, len + 4, Len(h.buffer))
        IN  IF Len(packet) < 12
            THEN [h EXCEPT !.buffer = rest, !.fault = TRUE]
            ELSE
            LET id   == readInt32LE(packet, 4)
                type == readInt32LE(packet, 8)
                body == toString(packet, 12, Len(packet) - 2)
                seen == Append(h.decoded, <<id, body>>)
            IN  IF MapHas(h.queue, id)
                THEN \* clearTimeout, queue.delete(id), resolve(body)
                     LET c == MapGet(h.queue, id)
                     IN  handleLoop([h EXCEPT
                             !.buffer = rest,
                             !.decoded = seen,
                             !.queue = MapDelete(h.queue, id),
                             !.calls = [ResolveCall(h.calls, c, body)
                                            EXCEPT ![c].timer = FALSE]])
                ELSE \* unmatched id (also -1): nothing is done with the packet
                     handleLoop([h EXCEPT !.buffer = rest, !.decoded = seen])

\* mutant: any response settles the auth requests that are outstanding
AuthResolvedByAny(before, after) ==
    IF \E d \in DOMAIN before : before[d].st = "pending" /\ after[d].st = "resolved"
    THEN {before[c].conn : c \in {d \in DOMAIN before :
                                      before[d].st = "pending" /\ before[d].conn # 0}}
    ELSE {}

\* connect() calls whose auth send() went from pending to resolved between the
\* call tables before and after: their .then callbacks run once the listener
\* has returned.
AuthResolved(before, after) ==
    {after[c].conn : c \in {d \in DOMAIN before :
                               /\ before[d].st = "pending"
                               /\ after[d].st = "resolved"
                               /\ after[d].conn # 0}}

\* socket.on('data') of socket n with the first k bytes of what is in flight
handleData(n, k) ==
    /\ ~fault
    /\ UNCHANGED <<codec, stdin, awaiting>>
    /\ sockSt[n] = "open"
    /\ k \in 1..Len(wire[n])
    /\ LET data == SubSeq(wire[n], 1, k)
           h == handleLoop([buffer |-> buffer \o data, queue |-> queue,
                            calls |-> calls, decoded |-> <<>>, fault |-> FALSE])
           auths == AuthResolved(calls, h.calls)
       IN  /\ wire' = [wire EXCEPT ![n] = SubSeq(wire[n], k + 1, Len(wire[n]))]
           /\ buffer' = h.buffer
           /\ queue' = h.queue
           /\ calls' = h.calls
           /\ decoded' = h.decoded
           /\ fault' = h.fault
           \* .then(() => { this.isAuthenticated = true; resolve(); })
           /\ isAuthenticated' = IF auths # {} /\ ~h.fault THEN TRUE ELSE isAuthenticated
           /\ conn' = [m \in Sockets |->
                          IF m \in auths /\ ~h.fault THEN Settle(conn[m], "resolved")
                          ELSE conn[m]]
    /\ UNCHANGED <<socket, requestId, sockSt, budget, stream>>

\* ------------------------------------------------------------ the server
\* The ids the peer may answer with: the auth-failure id -1, every id used so
\* far, and the next one (used by no request yet).
ServerIds == {-1} \cup (1..requestId)

\* The reads the transport may make of w: all of it, or its first SplitAt bytes.
Chunks(w) == {k \in 1..Len(w) : k = Len(w) \/ (budget.split /\ k = SplitAt)}

\* The peer of socket n puts one well-formed packet on the wire.
serverSend(n, id) ==
    /\ ~fault
    /\ UNCHANGED <<codec, stdin, awaiting>>
    /\ sockSt[n] = "open"
    /\ Len(wire[n]) = 0 \/ MaxWire > 1
    /\ wire' = [wire EXCEPT ![n] = @ \o EncodePacket(id, 0, ResponseBody(id))]
    /\ decoded' = <<>>
    /\ UNCHANGED <<socket, requestId, isAuthenticated, queue, buffer, sockSt, conn,
                   calls, budget, stream, fault>>

\* ------------------------------------------------------- specification
Next ==
    \/ connect
    \/ disconnect
    \/ \E cmd \in Commands : sendCommand(cmd)
    \/ \E n \in Sockets : onConnect(n)
    \/ \E n \in Sockets : onError(n)
    \/ \E n \in Sockets : onEnd(n)
    \/ \E n \in Sockets : onClose(n)
    \/ \E c \in DOMAIN calls : onTimeout(c)
    \/ \E n \in Sockets : \E k \in Chunks(wire[n]) : handleData(n, k)
    \/ \E n \in Sockets : \E id \in ServerIds : serverSend(n, id)

Spec == Init /\ [][Next]_vars

\* ------------------------------------------------ timers specification
\* A timer that setTimeout armed fires unless clearTimeout cancelled it: no
\* socket event and no call of the client touches it. One connection and two
\* commands, whole reads, and every armed timer is eventually run.
InitLive ==
    /\ socket = 0
    /\ requestId = 1
    /\ isAuthenticated = FALSE
    /\ queue = <<>>
    /\ buffer = <<>>
    /\ sockSt = [n \in Sockets |-> "none"]
    /\ wire = [n \in Sockets |-> <<>>]
    /\ conn = [n \in Sockets |-> "none"]
    /\ calls = <<>>
    /\ decoded = <<>>
    /\ budget = [connects |-> 1, commands |-> 2, split |-> FALSE]
    /\ stream = <<>>
    /\ fault = FALSE
    /\ NoCodec
    /\ stdin = <<>>
    /\ awaiting = {}

SpecLive ==
    /\ InitLive
    /\ [][Next]_vars
    /\ \A c \in 1..(MaxConnects + MaxCommands) :
           WF_vars(c \in DOMAIN calls /\ onTimeout(c))

\* ------------------------------------------- the 'send-command' handler
\* server.js keeps the client in rconClients once its connect() has resolved;
\* the managed process is running, so runningServers has its stdin.
\* socket.on('send-command'), up to its await: rcon.sendCommand(command) when
\* the client is there and authenticated, else the write to stdin.
onSendCommand(cmd) ==
    /\ ~fault
    /\ UNCHANGED codec
    /\ Cardinality({c \in DOMAIN calls : calls[c].type = CommandType}) < budget.commands
    /\ Len(stdin) < budget.commands
    /\ IF (\E k \in Sockets : conn[k] = "resolved") /\ isAuthenticated
       THEN /\ send(CommandType, cmd, 0)
            /\ awaiting' = awaiting \cup {Len(calls) + 1}
            /\ stdin' = stdin
       ELSE /\ stdin' = Append(stdin, cmd)
            /\ UNCHANGED <<requestId, queue, conn, calls, awaiting>>
    /\ decoded' = <<>>
    /\ UNCHANGED <<socket, isAuthenticated, buffer, sockSt, wire, budget, stream, fault>>

\* The handler after its await of call c: appendLog when the promise was
\* resolved, the catch block ("Fallback to STDIN") when it was rejected.
afterAwait(c) ==
    /\ ~fault
    /\ UNCHANGED codec
    /\ c \in awaiting
    /\ calls[c].st # "pending"
    /\ awaiting' = awaiting \ {c}
    /\ stdin' = IF calls[c].st = "rejected" THEN Append(stdin, calls[c].body)
                ELSE stdin
    /\ decoded' = <<>>
    /\ UNCHANGED <<socket, requestId, isAuthenticated, queue, buffer, sockSt, wire,
                   conn, calls, budget, stream, fault>>

\* One client made by server.js, connected once, and the commands of the
\* console; the process runs on, so the client is never disconnected.
NextServer ==
    \/ connect
    \/ \E cmd \in Commands : onSendCommand(cmd)
    \/ \E c \in DOMAIN calls : afterAwait(c)
    \/ \E n \in Sockets : onConnect(n)
    \/ \E n \in Sockets : onError(n)
    \/ \E n \in Sockets : onEnd(n)
    \/ \E n \in Sockets : onClose(n)
    \/ \E c \in DOMAIN calls : onTimeout(c)
    \/ \E n \in Sockets : \E k \in Chunks(wire[n]) : handleData(n, k)
    \/ \E n \in Sockets : \E id \in ServerIds : serverSend(n, id)

SpecServer == InitLive /\ [][NextServer]_vars

\* ------------------------------------------------- framing specification
\* One connection with its auth request and two commands outstanding; the peer
\* sends a stream of up to MaxStream packets, which the transport hands to
\* handleData cut anywhere.
MaxStream == 3

StreamIds == {-1, 1, 2, 3}

StreamPacket(id) == EncodePacket(id, 0, ResponseBody(id))

RECURSIVE Flatten(_)
Flatten(ps) == IF ps = <<>> THEN <<>> ELSE StreamPacket(Head(ps)) \o Flatten(Tail(ps))

Streams == UNION {[1..k -> StreamIds] : k \in 0..MaxStream}

PendingCall(type, body, id, k) ==
    [type |-> type, body |-> body, id |-> id, st |-> "pending", val |-> <<>>,
     err |-> "", timer |-> TRUE, conn |-> k, sock |-> 1,
     buf |-> EncodePacket(id, type, body)]

\* The state after connect(), the connect callback and two sendCommand calls.
InitFraming ==
    /\ socket = 1
    /\ requestId = 4
    /\ isAuthenticated = FALSE
    /\ queue = <<1, 2, 3>>
    /\ buffer = <<>>
    /\ sockSt = [n \in Sockets |-> IF n = 1 THEN "open" ELSE "none"]
    /\ stream \in Streams
    /\ wire = [n \in Sockets |-> IF n = 1 THEN Flatten(stream) ELSE <<>>]
    /\ conn = [n \in Sockets |-> IF n = 1 THEN "pending" ELSE "none"]
    /\ calls = <<PendingCall(AuthType, Password, 1, 1),
                 PendingCall(CommandType, <<>>, 2, 0),
                 PendingCall(CommandType, <<108, 115>>, 3, 0)>>
    /\ decoded = <<>>
    /\ budget = [connects |-> 1, commands |-> 2, split |-> TRUE]
    /\ fault = FALSE
    /\ NoCodec
    /\ stdin = <<>>
    /\ awaiting = {}

NextFraming == \E k \in 1..Len(wire[1]) : handleData(1, k)

SpecFraming == InitFraming /\ [][NextFraming]_vars

\* ------------------------------------------------- arbitrary inbound bytes
\* The peer is not trusted: up to MaxInbound frames of 14 bytes each (length
\* field, id 2, type 0, two bytes), whose length field declares any of
\* InboundLens; a declared length of 10 makes the frame a well-formed packet.
MaxInbound == 2

InboundLens == {-5, -4, 0, 4, 8, 10}

InboundFrame(len) ==
    writeInt32LE(len) \o writeInt32LE(2) \o writeInt32LE(0) \o <<0, 0>>

RECURSIVE FlattenInbound(_)
FlattenInbound(ls) ==
    IF ls = <<>> THEN <<>> ELSE InboundFrame(Head(ls)) \o FlattenInbound(Tail(ls))

InboundStreams ==
    {FlattenInbound(ls) : ls \in UNION {[1..k -> InboundLens] : k \in 1..MaxInbound}}

\* The state after connect(), the connect callback and two sendCommand calls,
\* with the bytes of an arbitrary peer in flight.
InitInbound ==
    /\ socket = 1
    /\ requestId = 4
    /\ isAuthenticated = FALSE
    /\ queue = <<1, 2, 3>>
    /\ buffer = <<>>
    /\ sockSt = [n \in Sockets |-> IF n = 1 THEN "open" ELSE "none"]
    /\ stream = <<>>
    /\ wire \in {[n \in Sockets |-> IF n = 1 THEN w ELSE <<>>] : w \in InboundStreams}
    /\ conn = [n \in Sockets |-> IF n = 1 THEN "pending" ELSE "none"]
    /\ calls = <<PendingCall(AuthType, Password, 1, 1),
                 PendingCall(CommandType, <<>>, 2, 0),
                 PendingCall(CommandType, <<108, 115>>, 3, 0)>>
    /\ decoded = <<>>
    /\ budget = [connects |-> 1, commands |-> 2, split |-> TRUE]
    /\ fault = FALSE
    /\ NoCodec
    /\ stdin = <<>>
    /\ awaiting = {}

NextInbound == \E k \in 1..Len(wire[1]) : handleData(1, k)

SpecInbound == InitInbound /\ [][NextInbound]_vars

\* ------------------------------------------------------------ JS values
\* Bits are written most significant first.
StripLeading(bs) ==
    IF \A i \in 1..Len(bs) : bs[i] = 0 THEN <<>>
    ELSE SubSeq(bs, CHOOSE i \in 1..Len(bs) : bs[i] = 1 /\ \A j \in 1..(i - 1) : bs[j] = 0,
                Len(bs))

TrailingZeros(bs) ==
    IF \A i \in 1..Len(bs) : bs[i] = 0 THEN Len(bs)
    ELSE Len(bs) - (CHOOSE i \in 1..Len(bs) : bs[i] = 1 /\ \A j \in (i + 1)..Len(bs) : bs[j] = 0)

Invert(bs) == [i \in 1..Len(bs) |-> 1 - bs[i]]

\* bs + 1 (one bit longer when every bit of bs is 1)
Inc(bs) ==
    IF \A i \in 1..Len(bs) : bs[i] = 1 THEN <<1>> \o [i \in 1..Len(bs) |-> 0]
    ELSE LET p == CHOOSE i \in 1..Len(bs) : bs[i] = 0 /\ \A j \in (i + 1)..Len(bs) : bs[j] = 1
         IN  [i \in 1..Len(bs) |-> IF i < p THEN bs[i] ELSE IF i = p THEN 1 ELSE 0]

\* The bits of a sequence of bytes.
BytesToBits(bytes) ==
    [i \in 1..(8 * Len(bytes)) |->
        (bytes[((i - 1) \div 8) + 1] \div (2 ^ (7 - ((i - 1) % 8)))) % 2]

\* The 32 bits of the two's complement of an int32.
Int32Bits(v) ==
    [i \in 1..32 |-> IF i = 1 THEN (IF v < 0 THEN 1 ELSE 0)
                     ELSE (v \div (2 ^ (32 - i))) % 2]

\* A BigInt: sign and magnitude (no leading zero bit). The argument is a
\* two's-complement bit pattern.
BigInt(bits) ==
    IF bits # <<>> /\ bits[1] = 1
    THEN [neg |-> TRUE, mag |-> StripLeading(Inc(Invert(bits)))]
    ELSE [neg |-> FALSE, mag |-> StripLeading(bits)]

\* A finite JS Number (-1)^neg * mag * 2^exp, mag odd or zero (<<>>).
Finite(neg, bits, exp) ==
    LET m == StripLeading(bits)
        z == TrailingZeros(m)
    IN  IF m = <<>>
        THEN [cls |-> "finite", neg |-> neg, mag |-> <<>>, exp |-> 0]
        ELSE [cls |-> "finite", neg |-> neg,
              mag |-> SubSeq(m, 1, Len(m) - z), exp |-> exp + z]

Infinity(neg) == [cls |-> "infinity", neg |-> neg, mag |-> <<>>, exp |-> 0]

NaN == [cls |-> "nan", neg |-> FALSE, mag |-> <<>>, exp |-> 0]

\* The Number of an int32 (what readInt8, readInt16BE, readInt32BE return).
FromInt(v) == Finite(v < 0, BigInt(Int32Bits(v)).mag, 0)

\* Number(big): the double nearest to the BigInt, ties to even. A double keeps
\* 53 significant bits.
Number(big) ==
    IF Len(big.mag) <= 53 THEN Finite(big.neg, big.mag, 0)
    ELSE
    LET keep == SubSeq(big.mag, 1, 53)
        rest == SubSeq(big.mag, 54, Len(big.mag))
        sticky == \E i \in 2..Len(rest) : rest[i] = 1
        up == rest[1] = 1 /\ (sticky \/ keep[53] = 1)
    IN  Finite(big.neg, IF up THEN Inc(keep) ELSE keep, Len(rest))

\* What a JS value is made of: null, a Number, a string (character codes), an
\* array, or an object (own enumerable names in property order, and the value
\* of each).
JsValue(k, num, str, items, names) ==
    [k |-> k, num |-> num, str |-> str, items |-> items, names |-> names]

JsNull == JsValue("null", Finite(FALSE, <<>>, 0), <<>>, <<>>, <<>>)

JsBoolean(b) == JsValue(IF b THEN "true" ELSE "false", Finite(FALSE, <<>>, 0), <<>>, <<>>, <<>>)

JsNumber(n) == JsValue("number", n, <<>>, <<>>, <<>>)

JsString(s) == JsValue("string", Finite(FALSE, <<>>, 0), s, <<>>, <<>>)

JsArray(items) == JsValue("array", Finite(FALSE, <<>>, 0), <<>>, items, <<>>)

JsObject(names, items) == JsValue("object", Finite(FALSE, <<>>, 0), <<>>, items, names)

\* A property name that is an array index ("0", "7", "10", .. up to 2^32 - 2):
\* an object lists such names first, in ascending numeric order.
IsIndex(name) ==
    /\ Len(name) \in 1..10
    /\ \A i \in 1..Len(name) : name[i] \in 48..57
    /\ Len(name) > 1 => name[1] # 48
    /\ Len(name) = 10 =>
          LET max == <<52, 50, 57, 52, 57, 54, 55, 50, 57, 52>>
          IN  \A i \in 1..10 : name[i] > max[i] => \E j \in 1..(i - 1) : name[j] < max[j]

IndexLess(a, b) ==
    \/ Len(a) < Len(b)
    \/ /\ Len(a) = Len(b)
       /\ \E i \in 1..Len(a) : a[i] < b[i] /\ \A j \in 1..(i - 1) : a[j] = b[j]

ProtoName == <<95, 95, 112, 114, 111, 116, 111, 95, 95>>      \* "__proto__"

\* Defining the own property name of obj with the value v: an own property
\* keeps its place and takes the value; a new index name goes among the index
\* names, any other new name to the end.
ObjDefine(obj, name, v) ==
    IF \E i \in 1..Len(obj.names) : obj.names[i] = name
    THEN LET i == CHOOSE j \in 1..Len(obj.names) : obj.names[j] = name
         IN  [obj EXCEPT !.items[i] = v]
    ELSE LET at == IF IsIndex(name)
                   THEN Cardinality({j \in 1..Len(obj.names) :
                                        IsIndex(obj.names[j]) /\ IndexLess(obj.names[j], name)})
                   ELSE Len(obj.names)
             ins(q, x) == SubSeq(q, 1, at) \o <<x>> \o SubSeq(q, at + 1, Len(q))
         IN  [obj EXCEPT !.names = ins(obj.names, name), !.items = ins(obj.items, v)]

\* obj[name] = v on an object made by {}: "__proto__" is the prototype accessor
\* and adds no property.
ObjSet(obj, name, v) == IF name = ProtoName THEN obj ELSE ObjDefine(obj, name, v)

\* ---------------------------------------------------------- Buffer reads
\* A read of n bytes at off throws a RangeError unless 0 <= off <= length - n.
InRange(buf, off, n) == off >= 0 /\ off + n <= Len(buf)

readInt8(buf, off) == IF buf[off + 1] >= 128 THEN buf[off + 1] - 256 ELSE buf[off + 1]

readUInt16BE(buf, off) == 256 * buf[off + 1] + buf[off + 2]

readInt16BE(buf, off) == 256 * readInt8(buf, off) + buf[off + 2]

readInt32BE(buf, off) ==
    16777216 * readInt8(buf, off) + 65536 * buf[off + 2] + 256 * buf[off + 3] + buf[off + 4]

RECURSIVE BitsToNat(_)
BitsToNat(bs) ==
    IF bs = <<>> THEN 0 ELSE 2 * BitsToNat(SubSeq(bs, 1, Len(bs) - 1)) + bs[Len(bs)]

\* The Number an IEEE 754 pattern stands for: sign, ebits of biased exponent,
\* fraction.
IEEE(bits, ebits) ==
    LET neg  == bits[1] = 1
        e    == BitsToNat(SubSeq(bits, 2, 1 + ebits))
        frac == SubSeq(bits, 2 + ebits, Len(bits))
        bias == (2 ^ (ebits - 1)) - 1
    IN  IF e = (2 ^ ebits) - 1
        THEN (IF StripLeading(frac) = <<>> THEN Infinity(neg) ELSE NaN)
        ELSE IF e = 0 THEN Finite(neg, frac, 1 - bias - Len(frac))
        ELSE Finite(neg, <<1>> \o frac, e - bias - Len(frac))

readFloatBE(buf, off) == IEEE(BytesToBits(SubSeq(buf, off + 1, off + 4)), 8)

readDoubleBE(buf, off) == IEEE(BytesToBits(SubSeq(buf, off + 1, off + 8)), 11)

\* -------------------------------------------------------------- NbtReader
\* A method of the reader r = [buffer, offset] ends in [r, v, err]: the reader
\* after it, the value returned, and the error thrown ("" when it returned).
Returned(r, v) == [r |-> r, v |-> v, err |-> ""]

Thrown(r, err) == [r |-> r, v |-> JsNull, err |-> err]

\* new NbtReader(buffer)
NbtReader(buf) == [buffer |-> buf, offset |-> 0]

Advance(r, n) == [r EXCEPT !.offset = @ + n]

\* readByte(): this.offset++ is evaluated before readInt8 is called
readByte(r) ==
    IF InRange(r.buffer, r.offset, 1)
    THEN Returned(Advance(r, 1), readInt8(r.buffer, r.offset))
    ELSE Thrown(Advance(r, 1), "RangeError")

readShort(r) ==
    IF InRange(r.buffer, r.offset, 2)
    THEN Returned(Advance(r, 2), readInt16BE(r.buffer, r.offset))
    ELSE Thrown(r, "RangeError")

readInt(r) ==
    IF InRange(r.buffer, r.offset, 4)
    THEN Returned(Advance(r, 4), readInt32BE(r.buffer, r.offset))
    ELSE Thrown(r, "RangeError")

\* readLong(): (BigInt(high) << 32n) | BigInt(low >>> 0) is the BigInt whose
\* 64-bit two's complement is the 32 bits of high followed by the 32 bits of low
readLong(r) ==
    IF InRange(r.buffer, r.offset, 8)
    THEN LET high == readInt32BE(r.buffer, r.offset)
             low  == readInt32BE(r.buffer, r.offset + 4)
         IN  Returned(Advance(r, 8), BigInt(Int32Bits(high) \o Int32Bits(low)))
    ELSE Thrown(r, "RangeError")

readFloat(r) ==
    IF InRange(r.buffer, r.offset, 4)
    THEN Returned(Advance(r, 4), readFloatBE(r.buffer, r.offset))
    ELSE Thrown(r, "RangeError")

readDouble(r) ==
    IF InRange(r.buffer, r.offset, 8)
    THEN Returned(Advance(r, 8), readDoubleBE(r.buffer, r.offset))
    ELSE Thrown(r, "RangeError")

\* readString(): toString clamps its range to the buffer, the offset is moved
\* by the declared length
readString(r) ==
    IF InRange(r.buffer, r.offset, 2)
    THEN LET len == readUInt16BE(r.buffer, r.offset)
             at  == r.offset + 2
         IN  Returned(Advance(r, 2 + len), toString(r.buffer, at, at + len))
    ELSE Thrown(r, "RangeError")

RECURSIVE readTag(_, _), readElements(_, _, _, _), readCompound(_, _)

\* readTag(type)
readTag(r, type) ==
    LET Lift(res, v) == IF res.err = "" THEN Returned(res.r, v) ELSE Thrown(res.r, res.err)
    IN
    CASE type = 0 -> Returned(r, JsNull)
      [] type = 1 -> LET b == readByte(r) IN Lift(b, JsNumber(FromInt(b.v)))
      [] type = 2 -> LET h == readShort(r) IN Lift(h, JsNumber(FromInt(h.v)))
      [] type = 3 -> LET i == readInt(r) IN Lift(i, JsNumber(FromInt(i.v)))
      [] type = 4 -> LET l == readLong(r)
                     IN  IF l.err = "" THEN Returned(l.r, JsNumber(Number(l.v)))
                         ELSE Thrown(l.r, l.err)
      [] type = 5 -> LET f == readFloat(r) IN Lift(f, JsNumber(f.v))
      [] type = 6 -> LET d == readDouble(r) IN Lift(d, JsNumber(d.v))
      [] type = 7 -> LET len == readInt(r)
                     IN  IF len.err # "" THEN Thrown(len.r, len.err)
                         ELSE readElements(len.r, len.v, 1, <<>>)
      [] type = 8 -> LET str == readString(r) IN Lift(str, JsString(str.v))
      [] type = 9 -> LET itemType == readByte(r)
                         len == readInt(itemType.r)
                     IN  IF itemType.err # "" THEN Thrown(itemType.r, itemType.err)
                         ELSE IF len.err # "" THEN Thrown(len.r, len.err)
                         ELSE readElements(len.r, len.v, itemType.v, <<>>)
      [] type = 10 -> readCompound(r, JsObject(<<>>, <<>>))
      [] type = 11 -> LET len == readInt(r)
                      IN  IF len.err # "" THEN Thrown(len.r, len.err)
                          ELSE readElements(len.r, len.v, 3, <<>>)
      [] type = 12 -> LET len == readInt(r)
                      IN  IF len.err # "" THEN Thrown(len.r, len.err)
                          ELSE readElements(len.r, len.v, 4, <<>>)
      [] OTHER -> Thrown(r, "UnknownTagType")

\* for (let i = 0; i < len; i++) arr.push(<read one element>): the arrays read
\* a byte, an int or a long (as readTag 1, 3, 4 do), a list reads readTag(itemType)
readElements(r, len, type, arr) ==
    IF Len(arr) >= len THEN Returned(r, JsArray(arr))
    ELSE LET e == readTag(r, type)
         IN  IF e.err # "" THEN Thrown(e.r, e.err)
             ELSE readElements(e.r, len, type, Append(arr, e.v))

\* while (true) { tagType; if 0 break; name; obj[name] = readTag(tagType) }
readCompound(r, obj) ==
    LET tagType == readByte(r)
    IN  IF tagType.err # "" THEN Thrown(tagType.r, tagType.err)
        ELSE IF tagType.v = 0 THEN Returned(tagType.r, obj)
        ELSE LET name == readString(tagType.r)
             IN  IF name.err # "" THEN Thrown(name.r, name.err)
                 ELSE LET v == readTag(name.r, tagType.v)
                      IN  IF v.err # "" THEN Thrown(v.r, v.err)
                          ELSE readCompound(v.r, ObjSet(obj, name.v, v.v))

\* parse()
parse(r) ==
    LET type == readByte(r)
    IN  IF type.err # "" THEN Thrown(type.r, type.err)
        ELSE IF type.v = 0 THEN Returned(type.r, JsNull)
        ELSE LET name == readString(type.r)
             IN  IF name.err # "" THEN Thrown(name.r, name.err)
                 ELSE readTag(name.r, type.v)

\* ----------------------------------------------------------- tagged values
\* Decimal digits, most significant first, divided by 256 with r carried in from
\* the left: the digits of the quotient, then the remainder as the last element.
RECURSIVE DivDec(_, _)
DivDec(ds, r) ==
    IF ds = <<>> THEN <<r>>
    ELSE LET x == 10 * r + Head(ds)
         IN  <<x \div 256>> \o DivDec(Tail(ds), x % 256)

\* The bits of the natural number written with the decimal digits ds, eight
\* bits for each division by 256.
RECURSIVE DecToByteBits(_)
DecToByteBits(ds) ==
    IF \A i \in 1..Len(ds) : ds[i] = 0 THEN <<>>
    ELSE LET q == DivDec(ds, 0)
             r == q[Len(q)]
         IN  DecToByteBits(SubSeq(q, 1, Len(q) - 1))
             \o [i \in 1..8 |-> (r \div (2 ^ (8 - i))) % 2]

DecToBits(ds) == StripLeading(DecToByteBits(ds))

\* A tagged value: tag type t and, by type, an int (byte, short, int), a signed
\* decimal (long), a Number (float, double), a string, the element type and the
\* elements (list, arrays), or the names and the members (compound).
Tagged(t, n, digits, f, s, et, items, names) ==
    [t |-> t, n |-> n, neg |-> n < 0, digits |-> digits, f |-> f, s |-> s,
     et |-> et, items |-> items, names |-> names]

\* a byte (t = 1), short (2) or int (3)
TInteger(t, n) == Tagged(t, n, <<>>, NaN, <<>>, 0, <<>>, <<>>)

\* a long: sign (-1 or 1) and decimal digits
TLong(sign, digits) == Tagged(4, sign, digits, NaN, <<>>, 0, <<>>, <<>>)

\* a float (t = 5) or double (6)
TReal(t, f) == Tagged(t, 0, <<>>, f, <<>>, 0, <<>>, <<>>)

TString(s) == Tagged(8, 0, <<>>, NaN, s, 0, <<>>, <<>>)

TList(et, items) == Tagged(9, 0, <<>>, NaN, <<>>, et, items, <<>>)

TCompound(names, items) == Tagged(10, 0, <<>>, NaN, <<>>, 0, items, names)

\* a byte array (t = 7), int array (11) or long array (12) of tagged elements
TArray(t, items) ==
    Tagged(t, 0, <<>>, NaN, <<>>, IF t = 7 THEN 1 ELSE IF t = 11 THEN 3 ELSE 4, items, <<>>)

\* The binary format readTag reads, written: big-endian two's complement ints,
\* IEEE 754 floats, strings behind a 16-bit length, counts as 32-bit ints.
EncodeInt(v) ==
    <<(v \div 16777216) % 256, (v \div 65536) % 256, (v \div 256) % 256, v % 256>>

BitsToBytes(bits) ==
    [i \in 1..(Len(bits) \div 8) |-> BitsToNat(SubSeq(bits, 8 * i - 7, 8 * i))]

PadLeft(bits, w) == [i \in 1..(w - Len(bits)) |-> 0] \o bits

RECURSIVE NatToBits(_)
NatToBits(n) == IF n = 0 THEN <<>> ELSE NatToBits(n \div 2) \o <<n % 2>>

EncodeLong(neg, digits) ==
    LET mag == PadLeft(DecToBits(digits), 64)
    IN  BitsToBytes(IF neg THEN SubSeq(Inc(Invert(mag)), 1, 64) ELSE mag)

\* f has at most fbits + 1 significant bits and a normal exponent, or is zero,
\* an infinity or NaN.
EncodeIEEE(f, ebits, fbits) ==
    LET bias == (2 ^ (ebits - 1)) - 1
        sign == IF f.neg THEN <<1>> ELSE <<0>>
        ones == [i \in 1..ebits |-> 1]
        zeros(w) == [i \in 1..w |-> 0]
        PadRight(bits, w) == bits \o zeros(w - Len(bits))
    IN  BitsToBytes(
          CASE f.cls = "nan" -> <<0>> \o ones \o PadRight(<<1>>, fbits)
            [] f.cls = "infinity" -> sign \o ones \o zeros(fbits)
            [] f.cls = "finite" /\ f.mag = <<>> -> sign \o zeros(ebits + fbits)
            [] OTHER ->
                 sign \o PadLeft(NatToBits(f.exp + Len(f.mag) - 1 + bias), ebits)
                      \o PadRight(Tail(f.mag), fbits))

EncodeString(s) == <<Len(s) \div 256, Len(s) % 256>> \o s

RECURSIVE EncodePayload(_), EncodeAll(_), EncodeMembers(_, _)

EncodePayload(v) ==
    CASE v.t = 0 -> <<>>
      [] v.t = 1 -> <<v.n % 256>>
      [] v.t = 2 -> <<(v.n \div 256) % 256, v.n % 256>>
      [] v.t = 3 -> EncodeInt(v.n)
      [] v.t = 4 -> EncodeLong(v.neg, v.digits)
      [] v.t = 5 -> EncodeIEEE(v.f, 8, 23)
      [] v.t = 6 -> EncodeIEEE(v.f, 11, 52)
      [] v.t = 8 -> EncodeString(v.s)
      [] v.t = 9 -> <<v.et>> \o EncodeInt(Len(v.items)) \o EncodeAll(v.items)
      [] v.t = 10 -> EncodeMembers(v.names, v.items) \o <<0>>
      [] OTHER -> EncodeInt(Len(v.items)) \o EncodeAll(v.items)

EncodeAll(items) ==
    IF items = <<>> THEN <<>> ELSE EncodePayload(Head(items)) \o EncodeAll(Tail(items))

EncodeMembers(names, items) ==
    IF items = <<>> THEN <<>>
    ELSE <<Head(items).t>> \o EncodeString(Head(names)) \o EncodePayload(Head(items))
         \o EncodeMembers(Tail(names), Tail(items))

\* A whole file: the type of the root, its (empty) name, its payload; an End
\* root is the one byte 0.
Encode(v) ==
    IF v.t = 0 THEN <<0>> ELSE <<v.t>> \o EncodeString(<<>>) \o EncodePayload(v)

\* The generic value a tagged value stands for: numbers by their value, a
\* compound as the map of its names in insertion order.
RECURSIVE Generic(_)
Generic(v) ==
    CASE v.t = 0 -> JsNull
      [] v.t \in {1, 2, 3} -> JsNumber(FromInt(v.n))
      [] v.t = 4 -> JsNumber(Finite(v.neg, DecToBits(v.digits), 0))
      [] v.t \in {5, 6} -> JsNumber(v.f)
      [] v.t = 8 -> JsString(v.s)
      [] v.t = 10 -> JsObject(v.names, [i \in 1..Len(v.items) |-> Generic(v.items[i])])
      [] OTHER -> JsArray([i \in 1..Len(v.items) |-> Generic(v.items[i])])

\* --------------------------------------------------------- JSON.stringify
\* Decimal digits times m plus c, m and c below 257.
RECURSIVE MulDec(_, _, _)
MulDec(ds, m, c) ==
    IF ds = <<>>
    THEN (IF c = 0 THEN <<>>
          ELSE IF c < 10 THEN <<c>>
          ELSE IF c < 100 THEN <<c \div 10, c % 10>>
          ELSE <<c \div 100, (c \div 10) % 10, c % 10>>)
    ELSE LET x == ds[Len(ds)] * m + c
         IN  MulDec(SubSeq(ds, 1, Len(ds) - 1), m, x \div 10) \o <<x % 10>>

\* The decimal digits of the natural number with the given bytes (<<>> for 0).
RECURSIVE BytesToDec(_)
BytesToDec(bytes) ==
    IF bytes = <<>> THEN <<>>
    ELSE MulDec(BytesToDec(SubSeq(bytes, 1, Len(bytes) - 1)), 256, bytes[Len(bytes)])

\* The decimal digits of the natural number with the given bits.
BitsToDec(bits) ==
    BytesToDec(BitsToBytes([i \in 1..((8 - (Len(bits) % 8)) % 8) |-> 0] \o bits))

\* ds times 5^w
RECURSIVE TimesFive(_, _)
TimesFive(ds, w) == IF w = 0 THEN ds ELSE TimesFive(MulDec(ds, 5, 0), w - 1)

\* The integer ds rounded to its k leading digits (half up), zeros after them.
RoundDec(ds, k) ==
    IF Len(ds) <= k THEN ds
    ELSE LET head == SubSeq(ds, 1, k)
             p == CHOOSE i \in 1..k : head[i] < 9 /\ \A j \in (i + 1)..k : head[j] = 9
             up == IF \A i \in 1..k : head[i] = 9 THEN <<1>> \o [i \in 1..k |-> 0]
                   ELSE [i \in 1..k |-> IF i < p THEN head[i]
                                        ELSE IF i = p THEN head[i] + 1 ELSE 0]
             kept == IF ds[k + 1] >= 5 THEN up ELSE head
         IN  kept \o [i \in 1..(Len(ds) - k) |-> 0]

Digits(ds) == [i \in 1..Len(ds) |-> 48 + ds[i]]

\* Number.prototype.toString of a finite Number x, as JSON.stringify writes it.
\* An integer below 2^53 is written digit for digit; a larger one with the
\* fewest leading digits of its expansion that still read back as x, zeros after
\* them. A fraction is written by its exact expansion, which is what JS prints
\* when that has at most 15 significant digits and x >= 1e-6.
NumberToString(x) ==
    LET sign == IF x.neg /\ x.mag # <<>> THEN <<45>> ELSE <<>>
    IN  IF x.mag = <<>> THEN <<48>>
        ELSE IF x.exp >= 0
        THEN LET exact == BitsToDec(x.mag \o [i \in 1..x.exp |-> 0])
                 reads(k) == Number([neg |-> x.neg, mag |-> DecToBits(RoundDec(exact, k))]) = x
                 k == CHOOSE j \in 1..17 : reads(j) /\ \A i \in 1..(j - 1) : ~reads(i)
             IN  sign \o Digits(IF Len(x.mag) + x.exp <= 53 THEN exact
                                ELSE RoundDec(exact, k))
        ELSE LET w == 0 - x.exp
                 n == TimesFive(BitsToDec(x.mag), w)
                 all == IF Len(n) <= w THEN [i \in 1..(w + 1 - Len(n)) |-> 0] \o n ELSE n
             IN  sign \o Digits(SubSeq(all, 1, Len(all) - w)) \o <<46>>
                      \o Digits(SubSeq(all, Len(all) - w + 1, Len(all)))

\* The JSON text of a string: quotes around it, '"' and '\' behind a backslash,
\* control characters as escapes.
Quote(str) ==
    LET Hex(d) == IF d < 10 THEN 48 + d ELSE 87 + d
        esc(c) ==
          CASE c = 34 -> <<92, 34>>
            [] c = 92 -> <<92, 92>>
            [] c = 8  -> <<92, 98>>
            [] c = 9  -> <<92, 116>>
            [] c = 10 -> <<92, 110>>
            [] c = 12 -> <<92, 102>>
            [] c = 13 -> <<92, 114>>
            [] c < 32 /\ c \notin {8, 9, 10, 12, 13} ->
                 <<92, 117, 48, 48, Hex(c \div 16), Hex(c % 16)>>
            [] OTHER -> <<c>>
        RECURSIVE body(_)
        body(q) == IF q = <<>> THEN <<>> ELSE esc(Head(q)) \o body(Tail(q))
    IN  <<34>> \o body(str) \o <<34>>

Spaces(n) == [i \in 1..n |-> 32]

\* JSON.stringify(data, replacer, 2) at depth `indent`. The replacer turns a
\* bigint into its decimal string; readTag returns no bigint (it returns
\* Number(readLong())), so the replacer changes nothing.
RECURSIVE JSONstringify(_, _), JsonEntries(_, _, _, _)
JSONstringify(v, indent) ==
    CASE v.k = "null" -> <<110, 117, 108, 108>>
      [] v.k = "number" ->
           IF v.num.cls = "finite" THEN NumberToString(v.num) ELSE <<110, 117, 108, 108>>
      [] v.k = "string" -> Quote(v.str)
      [] v.k = "array" ->
           IF v.items = <<>> THEN <<91, 93>>
           ELSE <<91, 10>> \o JsonEntries(<<>>, v.items, indent + 2, FALSE)
                \o <<10>> \o Spaces(indent) \o <<93>>
      [] v.k = "object" ->
           IF v.items = <<>> THEN <<123, 125>>
           ELSE <<123, 10>> \o JsonEntries(v.names, v.items, indent + 2, TRUE)
                \o <<10>> \o Spaces(indent) \o <<125>>

JsonEntries(names, items, indent, named) ==
    IF items = <<>> THEN <<>>
    ELSE Spaces(indent)
         \o (IF named THEN Quote(Head(names)) \o <<58, 32>> ELSE <<>>)
         \o JSONstringify(Head(items), indent)
         \o (IF Len(items) > 1
             THEN <<44, 10>> \o JsonEntries(IF named THEN Tail(names) ELSE <<>>,
                                            Tail(items), indent, named)
             ELSE <<>>)

\* ------------------------------------------------------- reading NBT files
\* The files handed to the reader: the encoding of a tagged value, whole or cut
\* short at any byte.
LongMax == <<9, 2, 2, 3, 3, 7, 2, 0, 3, 6, 8, 5, 4, 7, 7, 5, 8, 0, 7>>

\* Every tag kind, lists and compounds four deep.
DeepTree ==
    TCompound(
      <<<<98>>, <<115>>, <<105>>, <<108>>, <<102>>, <<100>>, <<66>>, <<83>>, <<76>>, <<67>>,
        <<73>>, <<74>>>>,
      <<TInteger(1, -3), TInteger(2, 300), TInteger(3, -70000),
        TLong(-1, <<1, 2, 3, 4, 5, 6, 7, 8, 9, 0, 1, 2>>),
        TReal(5, Finite(FALSE, <<1, 1>>, -1)),            \* 1.5
        TReal(6, Finite(TRUE, <<1, 0, 0, 1>>, -2)),       \* -2.25
        TArray(7, <<TInteger(1, 1), TInteger(1, -1)>>),
        TString(<<104, 105>>),
        TList(10, <<TCompound(<<<<120>>>>,
                              <<TList(3, <<TInteger(3, 7), TInteger(3, -8)>>)>>)>>),
        TCompound(<<<<107>>>>, <<TCompound(<<<<109>>>>, <<TList(8, <<TString(<<97>>)>>)>>)>>),
        TArray(11, <<TInteger(3, 7), TInteger(3, -8)>>),
        TArray(12, <<TLong(1, <<4, 2>>), TLong(-1, <<4, 2>>)>>)>>)

\* The files read: Compound roots (every kind nested, none, the longs at and
\* past 2^53, an item), and files whose root is not a Compound: one of every
\* other tag kind, and End.
NbtTrees ==
    {DeepTree,
     TCompound(<<>>, <<>>),
     TCompound(<<<<118>>>>, <<TLong(1, LongMax)>>),
     TCompound(<<<<118>>>>, <<TArray(12, <<TLong(1, LongMax)>>)>>),
     TCompound(<<<<118>>>>, <<TLong(-1, <<9, 0, 0, 7, 1, 9, 9, 2, 5, 4, 7, 4, 0, 9, 9, 1>>)>>),
     TCompound(<<<<105, 100>>, <<110>>>>,
               <<TString(<<109, 105, 110, 101, 99, 114, 97, 102, 116, 58, 115, 116, 111,
                           110, 101>>),
                 TList(1, <<>>)>>),
     Tagged(0, 0, <<>>, NaN, <<>>, 0, <<>>, <<>>),
     TInteger(1, 5), TInteger(2, 5), TInteger(3, 5), TLong(1, <<5>>),
     TReal(5, Finite(FALSE, <<1, 1>>, -1)), TReal(6, Finite(FALSE, <<1, 1>>, -1)),
     TArray(7, <<TInteger(1, 5)>>), TString(<<104, 105>>), TList(1, <<TInteger(1, 5)>>),
     TArray(11, <<TInteger(3, 5)>>), TArray(12, <<TLong(1, <<5>>)>>)}

\* No remote-command client takes part in a run of a parser.
NoClient ==
    /\ socket = 0
    /\ requestId = 1
    /\ isAuthenticated = FALSE
    /\ queue = <<>>
    /\ buffer = <<>>
    /\ sockSt = [n \in Sockets |-> "none"]
    /\ wire = [n \in Sockets |-> <<>>]
    /\ conn = [n \in Sockets |-> "none"]
    /\ calls = <<>>
    /\ decoded = <<>>
    /\ budget = [connects |-> 0, commands |-> 0, split |-> FALSE]
    /\ stream = <<>>
    /\ fault = FALSE
    /\ stdin = <<>>
    /\ awaiting = {}

\* const reader = new NbtReader(unzipped)
InitNbt ==
    /\ NoClient
    /\ tree \in NbtTrees
    /\ \E cut \in 0..Len(Encode(tree)) :
          reader = NbtReader(SubSeq(Encode(tree), 1, cut))
    /\ parsed = [st |-> "none"]
    /\ snbt = <<>>
    /\ converted = [st |-> "none"]

\* POST /api/read-nbt on the unzipped file: data = reader.parse(), then
\* content = JSON.stringify(data, replacer, 2); a throw is caught and answered 500
readNbt ==
    /\ parsed.st = "none"
    /\ LET p == parse(reader)
       IN  /\ reader' = p.r
           /\ parsed' = IF p.err = ""
                        THEN [st |-> "returned", v |-> p.v, err |-> "",
                              content |-> JSONstringify(p.v, 0)]
                        ELSE [st |-> "thrown", v |-> JsNull, err |-> p.err,
                              content |-> <<>>]
    /\ UNCHANGED <<tree, snbt, converted>>
    /\ UNCHANGED <<rcon, stdin, awaiting>>

NextNbt == readNbt

SpecNbt == InitNbt /\ [][NextNbt]_vars

\* ------------------------------------------------------ files not trusted
\* Files no encoder wrote. A Compound root with one member "a" (or the members
\* named) followed by the end marker:
\*   a member whose type byte is no tag type;
\*   a list of element type et (End, 13, 99) with a count of 0, 1, 2 and no
\*     element bytes;
\*   a byte array, a list of bytes, an int array, a long array whose count is
\*     -1 .. 3 in front of 0 or 2 elements;
\*   a string whose length prefix is 0, 2, 5 in front of 2 bytes;
\*   members named "b" "a", "10" "2" "a", "__proto__" "a", "a" "a", int values.
\* A root of type string (8) whose value has the length prefix 5 and 2 bytes,
\* and a root whose name has.
RawFiles ==
    LET member(t, name, payload) == <<t>> \o EncodeString(name) \o payload
        root(members) == <<10, 0, 0>> \o members \o <<0>>
        a == <<97>>
        ones(n) == [i \in 1..n |-> 1]
        width(t) == CASE t = 7 -> 1 [] t = 9 -> 1 [] t = 11 -> 4 [] t = 12 -> 8
        array(t, count, have) ==
            (IF t = 9 THEN <<1>> ELSE <<>>) \o EncodeInt(count) \o ones(have * width(t))
        RECURSIVE ints(_, _)
        ints(names, i) ==
            IF i > Len(names) THEN <<>>
            ELSE member(3, names[i], EncodeInt(i)) \o ints(names, i + 1)
    IN  {root(member(t, a, <<>>)) : t \in {13, 14, 200, 255}}
        \cup {root(member(9, a, <<et>> \o EncodeInt(count))) :
                 et \in {0, 13, 99}, count \in 0..2}
        \cup {root(member(t, a, array(t, count, have))) :
                 t \in {7, 9, 11, 12}, count \in -1..3, have \in {0, 2}}
        \cup {root(member(8, a, <<0, n, 104, 105>>)) : n \in {0, 2, 5}}
        \cup {root(ints(names, 1)) :
                 names \in {<<<<98>>, a>>, <<<<49, 48>>, <<50>>, a>>,
                            <<ProtoName, a>>, <<a, a>>}}
        \cup {<<8, 0, 0, 0, 5, 104, 105>>, <<10, 0, 5, 104, 105>>}

\* const reader = new NbtReader(unzipped) on such a file
InitRaw ==
    /\ NoClient
    /\ tree = <<>>
    /\ reader \in {NbtReader(file) : file \in RawFiles}
    /\ parsed = [st |-> "none"]
    /\ snbt = <<>>
    /\ converted = [st |-> "none"]

SpecRaw == InitRaw /\ [][NextNbt]_vars

\* ------------------------------------------------------ primitive reads
\* The primitive read methods of NbtReader, by name.
Primitive(m, r) ==
    CASE m = "readByte"   -> readByte(r)
      [] m = "readShort"  -> readShort(r)
      [] m = "readInt"    -> readInt(r)
      [] m = "readLong"   -> readLong(r)
      [] m = "readFloat"  -> readFloat(r)
      [] m = "readDouble" -> readDouble(r)
      [] m = "readString" -> readString(r)

\* One call reader.m() of a decode in progress; a read that throws ends it.
read(m) ==
    /\ parsed.st \in {"none", "returned"}
    /\ LET res == Primitive(m, reader)
       IN  /\ reader' = res.r
           /\ parsed' = [st |-> IF res.err = "" THEN "returned" ELSE "thrown",
                         method |-> m, err |-> res.err]
    /\ UNCHANGED <<tree, snbt, converted>>
    /\ UNCHANGED <<rcon, stdin, awaiting>>

NextCursor ==
    \E m \in {"readByte", "readShort", "readInt", "readLong", "readFloat", "readDouble",
              "readString"} : read(m)

SpecCursor == InitRaw /\ [][NextCursor]_vars

\* ---------------------------------------------------------------- parseSNBT
\* A string is the sequence of its character codes. Character classes of the
\* regular expressions: \d, \s, [a-zA-Z0-9_.\-:] and [a-zA-Z0-9_.:\-\+].
Digit == 48..57

Space == {9, 10, 11, 12, 13, 32, 160, 5760, 8232, 8233, 8239, 8287, 12288, 65279}
         \cup (8192..8202)

\* How many characters of s from position i on lie in the class C (greedy C*).
Run(s, i, C) ==
    IF \A k \in i..Len(s) : s[k] \in C THEN (IF i > Len(s) THEN 0 ELSE Len(s) + 1 - i)
    ELSE (CHOOSE k \in i..Len(s) : s[k] \notin C /\ \A j \in i..(k - 1) : s[j] \in C) - i

\* s continues at position i with the characters of w.
At(s, i, w) == i + Len(w) - 1 <= Len(s) /\ SubSeq(s, i, i + Len(w) - 1) = w

\* The character of s at i is in the class C.
In(s, i, C) == i >= 1 /\ i <= Len(s) /\ s[i] \in C

\* String.prototype.replace(/re/g, ..): m[i] is the length of the match of the
\* expression that starts at i (0: none), r[i] what replaces it. The matches are
\* taken from the left, each search starts where the last match ended.
RECURSIVE ReplaceFrom(_, _, _, _)
ReplaceFrom(s, m, r, pos) ==
    LET hits == {k \in pos..Len(s) : m[k] > 0}
    IN  IF hits = {} THEN SubSeq(s, pos, Len(s))
        ELSE LET j == CHOOSE k \in hits : \A h \in hits : k <= h
             IN  SubSeq(s, pos, j - 1) \o r[j] \o ReplaceFrom(s, m, r, j + m[j])

\* The end of the quoted text that starts at j: the position of the first "'"
\* not behind a backslash, 0 when a backslash is not followed by a character
\* that "." matches, or the text ends first.
RECURSIVE QuoteEnd(_, _)
QuoteEnd(s, j) ==
    IF j > Len(s) THEN 0
    ELSE IF s[j] = 39 THEN j
    ELSE IF s[j] # 92 THEN QuoteEnd(s, j + 1)
    ELSE IF j + 1 <= Len(s) /\ s[j + 1] \notin {10, 13, 8232, 8233} THEN QuoteEnd(s, j + 2)
    ELSE 0

\* 0. /(?<!\\)'([^'\\]*(?:\\.[^'\\]*)*)'/g: a single-quoted string becomes a
\* double-quoted one, \' in it becomes ' and " becomes \"
SingleQuotes(s) ==
    LET end(i) == IF s[i] = 39 /\ ~In(s, i - 1, {92}) THEN QuoteEnd(s, i + 1) ELSE 0
        m == <<>> \o [i \in 1..Len(s) |-> IF end(i) = 0 THEN 0 ELSE end(i) + 1 - i]
        clean(c) ==
            LET a == ReplaceFrom(c, [i \in 1..Len(c) |-> IF At(c, i, <<92, 39>>) THEN 2 ELSE 0],
                                 [i \in 1..Len(c) |-> <<39>>], 1)
            IN  ReplaceFrom(a, [i \in 1..Len(a) |-> IF a[i] = 34 THEN 1 ELSE 0],
                            [i \in 1..Len(a) |-> <<92, 34>>], 1)
        r == [i \in 1..Len(s) |-> <<34>> \o clean(SubSeq(s, i + 1, i + m[i] - 2)) \o <<34>>]
    IN  ReplaceFrom(s, m, r, 1)

\* 1. /\[[IBL];\s*/g becomes "["
ArrayTypes(s) ==
    LET m == <<>> \o [i \in 1..Len(s) |->
                 IF s[i] = 91 /\ In(s, i + 1, {73, 66, 76}) /\ In(s, i + 2, {59})
                 THEN 3 + Run(s, i + 3, Space) ELSE 0]
    IN  ReplaceFrom(s, m, [i \in 1..Len(s) |-> <<91>>], 1)

\* 2. /(?:^|{|,)\s*([a-zA-Z0-9_.\-:]+)\s*:/g: the key is the longest run of key
\* characters that a ':' follows (after spaces, or inside the run, which holds
\* ':' itself); the match becomes prefix + '"' + key + '":', the prefix being
\* the match up to the last place the key occurs in it
QuoteKeys(s) ==
    LET none == [colon |-> 0, at |-> 0, len |-> 0]
        try(k0) ==
            LET at  == k0 + Run(s, k0, Space)
                run == Run(s, at, Digit \cup (65..90) \cup (97..122) \cup {95, 46, 45, 58})
                far == at + run + Run(s, at + run, Space)
                cut == {l \in 1..(run - 1) : s[at + l] = 58}
            IN  IF run = 0 THEN none
                ELSE IF In(s, far, {58}) THEN [colon |-> far, at |-> at, len |-> run]
                ELSE IF cut = {} THEN none
                ELSE LET l == CHOOSE x \in cut : \A y \in cut : y <= x
                     IN  [colon |-> at + l, at |-> at, len |-> l]
        found(i) ==
            IF i = 1 /\ try(1).colon > 0 THEN try(1)
            ELSE IF s[i] \in {123, 44} THEN try(i + 1)
            ELSE none
        m == <<>> \o [i \in 1..Len(s) |->
                 IF found(i).colon = 0 THEN 0 ELSE found(i).colon + 1 - i]
        r == [i \in 1..Len(s) |->
                 LET match == SubSeq(s, i, i + m[i] - 1)
                     key == SubSeq(s, found(i).at, found(i).at + found(i).len - 1)
                     last == CHOOSE o \in 1..m[i] :
                                /\ At(match, o, key)
                                /\ \A o2 \in (o + 1)..m[i] : ~At(match, o2, key)
                 IN  SubSeq(match, 1, last - 1) \o <<34>> \o key \o <<34, 58>>]
    IN  ReplaceFrom(s, m, r, 1)

\* 3. /(-?\d+(?:\.\d+)?(?:[eE][+-]?\d+)?)[dfDF](?=[,\]}\s])/g becomes $1
FloatSuffixes(s) ==
    LET end(i) ==
            LET a == IF s[i] = 45 THEN i + 1 ELSE i
                b == a + Run(s, a, Digit)
                c == IF In(s, b, {46}) /\ Run(s, b + 1, Digit) > 0
                     THEN b + 1 + Run(s, b + 1, Digit) ELSE b
                g == IF In(s, c + 1, {43, 45}) THEN c + 2 ELSE c + 1
                e == IF In(s, c, {101, 69}) /\ Run(s, g, Digit) > 0
                     THEN g + Run(s, g, Digit) ELSE c
            IN  IF b > a /\ In(s, e, {100, 102, 68, 70}) /\ In(s, e + 1, {44, 93, 125} \cup Space)
                THEN e ELSE 0
        m == <<>> \o [i \in 1..Len(s) |-> IF end(i) = 0 THEN 0 ELSE end(i) + 1 - i]
    IN  ReplaceFrom(s, m, [i \in 1..Len(s) |-> SubSeq(s, i, i + m[i] - 2)], 1)

\* Stage 3 without its integer rule: the suffixes b, s and L stay.
IntSuffixesKept(s) == s

\* 3. /(-?\d+)[bsLBS](?=[,\]}\s])/g becomes $1
IntSuffixes(s) ==
    LET end(i) ==
            LET a == IF s[i] = 45 THEN i + 1 ELSE i
                b == a + Run(s, a, Digit)
            IN  IF b > a /\ In(s, b, {98, 115, 76, 66, 83}) /\ In(s, b + 1, {44, 93, 125} \cup Space)
                THEN b ELSE 0
        m == <<>> \o [i \in 1..Len(s) |-> IF end(i) = 0 THEN 0 ELSE end(i) + 1 - i]
    IN  ReplaceFrom(s, m, [i \in 1..Len(s) |-> SubSeq(s, i, i + m[i] - 2)], 1)

\* (?!(?:true|false|null|-?\d|\[|\{|")): what stages 4 and 5 leave unquoted
Unquoted(s, i) ==
    \/ At(s, i, <<116, 114, 117, 101>>)
    \/ At(s, i, <<102, 97, 108, 115, 101>>)
    \/ At(s, i, <<110, 117, 108, 108>>)
    \/ In(s, i, Digit)
    \/ In(s, i, {45}) /\ In(s, i + 1, Digit)
    \/ In(s, i, {91, 123, 34})

\* The bare word at i: its length when one of the characters of `closing`
\* follows it (after spaces) and it is not left unquoted, else 0.
BareWord(s, i, closing) ==
    LET run == Run(s, i, Digit \cup (65..90) \cup (97..122) \cup {95, 46, 45, 58, 43})
    IN  IF ~Unquoted(s, i) /\ In(s, i + run + Run(s, i + run, Space), closing)
        THEN run ELSE 0

\* 4. /:\s*(?!..)([a-zA-Z0-9_.:\-\+]+)(?=\s*[,}\]])/g becomes ': "$1"'
QuoteValues(s) ==
    LET at(i) == i + 1 + Run(s, i + 1, Space)
        word(i) == IF s[i] = 58 THEN BareWord(s, at(i), {44, 125, 93}) ELSE 0
        m == <<>> \o [i \in 1..Len(s) |-> IF word(i) = 0 THEN 0 ELSE at(i) + word(i) - i]
        r == [i \in 1..Len(s) |->
                 <<58, 32, 34>> \o SubSeq(s, at(i), at(i) + word(i) - 1) \o <<34>>]
    IN  ReplaceFrom(s, m, r, 1)

\* 5. /(?<=[\[,]\s*)(?!..)([a-zA-Z0-9_.:\-\+]+)(?=\s*[,\]])/g becomes '"$1"'
QuoteArrayValues(s) ==
    LET behind(i) == \E b \in 1..(i - 1) :
                        s[b] \in {91, 44} /\ \A k \in (b + 1)..(i - 1) : s[k] \in Space
        m == <<>> \o [i \in 1..Len(s) |->
                 IF behind(i) THEN BareWord(s, i, {44, 93}) ELSE 0]
        r == [i \in 1..Len(s) |-> <<34>> \o SubSeq(s, i, i + m[i] - 1) \o <<34>>]
    IN  ReplaceFrom(s, m, r, 1)

\* The text handed to JSON.parse.
Rewrite(s) ==
    QuoteArrayValues(QuoteValues(IntSuffixes(FloatSuffixes(QuoteKeys(ArrayTypes(SingleQuotes(s)))))))

\* -------------------------------------------------------------- JSON.parse
\* The outcome of parsing at a position: the value and the position after it,
\* or a SyntaxError and the position it is about.
Parsed(v, next) == [ok |-> TRUE, v |-> v, next |-> next]

SyntaxError(at) == [ok |-> FALSE, v |-> JsNull, next |-> at]

\* JSON's white space: tab, line feed, carriage return, space
SkipSpace(s, i) == i + Run(s, i, {9, 10, 13, 32})

\* The Number a decimal literal stands for, kept as sign, digits (no zero at
\* either end) and power of ten: literals of at most 15 digits stand for the
\* same double exactly when these agree.
Decimal(neg, digits, exp) ==
    LET zero == \A i \in 1..Len(digits) : digits[i] = 48
        first == CHOOSE i \in 1..Len(digits) : digits[i] # 48 /\ \A j \in 1..(i - 1) : digits[j] = 48
        last == CHOOSE i \in 1..Len(digits) : digits[i] # 48 /\ \A j \in (i + 1)..Len(digits) : digits[j] = 48
    IN  IF zero THEN [cls |-> "decimal", neg |-> neg, mag |-> <<>>, exp |-> 0]
        ELSE [cls |-> "decimal", neg |-> neg,
              mag |-> [i \in 1..(last + 1 - first) |-> digits[first + i - 1] - 48],
              exp |-> exp + Len(digits) - last]

RECURSIVE DigitsToNat(_)
DigitsToNat(ds) ==
    IF ds = <<>> THEN 0 ELSE 10 * DigitsToNat(SubSeq(ds, 1, Len(ds) - 1)) + (ds[Len(ds)] - 48)

\* -?(0|[1-9]\d*)(\.\d+)?([eE][+-]?\d+)? at i
ParseNumber(s, i) ==
    LET a == IF In(s, i, {45}) THEN i + 1 ELSE i
        b == IF In(s, a, {48}) THEN a + 1 ELSE a + Run(s, a, Digit)
        c == IF In(s, b, {46}) THEN b + 1 + Run(s, b + 1, Digit) ELSE b
        g == IF In(s, c + 1, {43, 45}) THEN c + 2 ELSE c + 1
        e == IF In(s, c, {101, 69}) THEN g + Run(s, g, Digit) ELSE c
        pow == IF e > c
               THEN (IF In(s, c + 1, {45}) THEN -1 ELSE 1) * DigitsToNat(SubSeq(s, g, e - 1))
               ELSE 0
        frac == IF c > b THEN SubSeq(s, b + 1, c - 1) ELSE <<>>
    IN  IF b = a THEN SyntaxError(a)
        ELSE IF c = b + 1 THEN SyntaxError(c)
        ELSE IF In(s, c, {101, 69}) /\ e = g THEN SyntaxError(g)
        ELSE Parsed(JsNumber(Decimal(a > i, SubSeq(s, a, b - 1) \o frac, pow - Len(frac))), e)

\* The characters of a string literal from j on, up to its closing quote.
RECURSIVE ParseString(_, _, _)
ParseString(s, j, acc) ==
    LET ends(k) == s[k] < 32 \/ s[k] \in {34, 92}
        stop == IF \E k \in j..Len(s) : ends(k)
                THEN CHOOSE k \in j..Len(s) : ends(k) /\ \A h \in j..(k - 1) : ~ends(h)
                ELSE Len(s) + 1
        hex(k) == In(s, k, Digit \cup (65..70) \cup (97..102))
        HexValue(c) == IF c \in Digit THEN c - 48 ELSE IF c \in 65..70 THEN c - 55 ELSE c - 87
        plain == <<34, 92, 47>>
        short == [c \in {98, 102, 110, 114, 116} |->
                     CASE c = 98 -> 8 [] c = 102 -> 12 [] c = 110 -> 10 [] c = 114 -> 13
                       [] c = 116 -> 9]
        sofar == acc \o SubSeq(s, j, stop - 1)
    IN  IF stop > Len(s) \/ s[stop] < 32 THEN SyntaxError(stop)
        ELSE IF s[stop] = 34 THEN Parsed(JsString(sofar), stop + 1)
        ELSE IF In(s, stop + 1, {34, 92, 47})
        THEN ParseString(s, stop + 2, Append(sofar, s[stop + 1]))
        ELSE IF In(s, stop + 1, DOMAIN short)
        THEN ParseString(s, stop + 2, Append(sofar, short[s[stop + 1]]))
        ELSE IF In(s, stop + 1, {117}) /\ \A k \in (stop + 2)..(stop + 5) : hex(k)
        THEN ParseString(s, stop + 6,
                 Append(sofar, 4096 * HexValue(s[stop + 2]) + 256 * HexValue(s[stop + 3])
                               + 16 * HexValue(s[stop + 4]) + HexValue(s[stop + 5])))
        ELSE SyntaxError(stop + 1)

RECURSIVE ParseValue(_, _), ParseElements(_, _, _), ParseMembers(_, _, _)

\* A JSON value at i (no space before it).
ParseValue(s, i) ==
    CASE In(s, i, {123}) ->
           IF In(s, SkipSpace(s, i + 1), {125})
           THEN Parsed(JsObject(<<>>, <<>>), SkipSpace(s, i + 1) + 1)
           ELSE ParseMembers(s, SkipSpace(s, i + 1), JsObject(<<>>, <<>>))
      [] In(s, i, {91}) ->
           IF In(s, SkipSpace(s, i + 1), {93})
           THEN Parsed(JsArray(<<>>), SkipSpace(s, i + 1) + 1)
           ELSE ParseElements(s, SkipSpace(s, i + 1), <<>>)
      [] In(s, i, {34}) -> ParseString(s, i + 1, <<>>)
      [] In(s, i, Digit \cup {45}) -> ParseNumber(s, i)
      [] At(s, i, <<116, 114, 117, 101>>) -> Parsed(JsBoolean(TRUE), i + 4)
      [] At(s, i, <<102, 97, 108, 115, 101>>) -> Parsed(JsBoolean(FALSE), i + 5)
      [] At(s, i, <<110, 117, 108, 108>>) -> Parsed(JsNull, i + 4)
      [] OTHER -> SyntaxError(i)

\* The elements of an array from i on: value, then "," or "]".
ParseElements(s, i, arr) ==
    LET e == ParseValue(s, i)
        j == SkipSpace(s, e.next)
    IN  IF ~e.ok THEN e
        ELSE IF In(s, j, {93}) THEN Parsed(JsArray(Append(arr, e.v)), j + 1)
        ELSE IF In(s, j, {44}) THEN ParseElements(s, SkipSpace(s, j + 1), Append(arr, e.v))
        ELSE SyntaxError(j)

\* The members of an object from i on: string, ":", value, then "," or "}".
ParseMembers(s, i, obj) ==
    LET name  == IF In(s, i, {34}) THEN ParseString(s, i + 1, <<>>) ELSE SyntaxError(i)
        colon == SkipSpace(s, name.next)
        v == IF In(s, colon, {58}) THEN ParseValue(s, SkipSpace(s, colon + 1))
             ELSE SyntaxError(colon)
        j == SkipSpace(s, v.next)
        now == ObjDefine(obj, name.v.str, v.v)
    IN  IF ~name.ok THEN name
        ELSE IF ~v.ok THEN v
        ELSE IF In(s, j, {125}) THEN Parsed(now, j + 1)
        ELSE IF In(s, j, {44}) THEN ParseMembers(s, SkipSpace(s, j + 1), now)
        ELSE SyntaxError(j)

\* JSON.parse(text): one value, spaces around it, nothing else.
JSONparse(s) ==
    LET v == ParseValue(s, SkipSpace(s, 1))
    IN  IF v.ok /\ SkipSpace(s, v.next) <= Len(s) THEN SyntaxError(SkipSpace(s, v.next))
        ELSE v

\* ------------------------------------------------------- converting SNBT
\* str.substring(a, b)
substring(str, a, b) ==
    LET clamp(x) == IF x < 0 THEN 0 ELSE IF x > Len(str) THEN Len(str) ELSE x
        lo == IF clamp(a) < clamp(b) THEN clamp(a) ELSE clamp(b)
        hi == IF clamp(a) < clamp(b) THEN clamp(b) ELSE clamp(a)
    IN  SubSeq(str, lo + 1, hi)

\* What the conversion leaves behind: how the call ended, the value returned,
\* and what the catch block wrote (context/marker, or the partial text).
Converted(st, v, report, text, marker) ==
    [st |-> st, v |-> v, report |-> report, text |-> text, marker |-> marker]

\* A catch block that hands the error on to the caller.
catchRethrow(str, hasPos, pos) == Converted("thrown", JsNull, "none", <<>>, 0)

\* catch (e) { ... return null }: hasPos is whether e.message holds
\* "position <n>", pos that number. " ".repeat(count) throws a RangeError on a
\* negative count, and nothing catches it here.
catch(str, hasPos, pos) ==
    LET start == IF pos - 50 > 0 THEN pos - 50 ELSE 0
        end   == IF Len(str) < pos + 50 THEN Len(str) ELSE pos + 50
        count == IF pos - start > 0 THEN pos - start ELSE 0
    IN  IF hasPos /\ str # <<>>
        THEN Converted(IF count < 0 THEN "thrown" ELSE "returned", JsNull, "context",
                       substring(str, start, end), count)
        ELSE Converted("returned", JsNull, "partial",
                       IF str # <<>> THEN substring(str, 0, 200) ELSE <<110, 117, 108, 108>>,
                       0)

\* {Health:20.0f,Pos:[1.5d,64.0d,-2.25d],Inventory:[{Slot:0b,id:"minecraft:stone",Count:1b}]}
Example ==
    <<123, 72, 101, 97, 108, 116, 104, 58, 50, 48, 46, 48, 102, 44, 80, 111, 115, 58,
      91, 49, 46, 53, 100, 44, 54, 52, 46, 48, 100, 44, 45, 50, 46, 50, 53, 100, 93,
      44, 73, 110, 118, 101, 110, 116, 111, 114, 121, 58, 91, 123, 83, 108, 111, 116,
      58, 48, 98, 44, 105, 100, 58, 34, 109, 105, 110, 101, 99, 114, 97, 102, 116, 58,
      115, 116, 111, 110, 101, 34, 44, 67, 111, 117, 110, 116, 58, 49, 98, 125, 93,
      125>>

\* not valid { at all
Malformed ==
    <<110, 111, 116, 32, 118, 97, 108, 105, 100, 32, 123, 32, 97, 116, 32, 97, 108,
      108>>

\* {id:minecraft:stone,tags:[a, b ,c],n : 5L,e:1e5d,x:[I; 1,2],q:'it'}
Loose ==
    <<123, 105, 100, 58, 109, 105, 110, 101, 99, 114, 97, 102, 116, 58, 115, 116, 111,
      110, 101, 44, 116, 97, 103, 115, 58, 91, 97, 44, 32, 98, 32, 44, 99, 93, 44, 110,
      32, 58, 32, 53, 76, 44, 101, 58, 49, 101, 53, 100, 44, 120, 58, 91, 73, 59, 32,
      49, 44, 50, 93, 44, 113, 58, 39, 105, 116, 39, 125>>

\* The text handed to parseSNBT: the captured entity data, whole or cut short.
InitSnbt ==
    /\ NoClient
    /\ tree = <<>>
    /\ reader = [buffer |-> <<>>, offset |-> 0]
    /\ parsed = [st |-> "none"]
    /\ \E t \in {Example, Malformed, Loose} :
          \E cut \in 0..Len(t) : snbt = SubSeq(t, 1, cut)
    /\ converted = [st |-> "none"]

\* try { if (!snbt) return null; ...; return JSON.parse(jsonStr) }: what the
\* block returns, or the SyntaxError of JSON.parse
try(str) == IF str = <<>> THEN Parsed(JsNull, 1) ELSE JSONparse(Rewrite(str))

\* How a call on str can end, given how its try block ended. Whether the
\* SyntaxError's message names a position, and which, is the engine's choice;
\* every position past the text's end by more than 50 reports alike.
Outcomes(str, block) ==
    IF block.ok THEN {Converted("returned", block.v, "none", <<>>, 0)}
    ELSE {catch(str, FALSE, 0)} \cup {catch(str, TRUE, pos) : pos \in 0..(Len(str) + 51)}

\* parseSNBT(snbt)
parseSNBT ==
    /\ converted.st = "none"
    /\ converted' \in Outcomes(snbt, try(snbt))
    /\ UNCHANGED <<tree, reader, parsed, snbt>>
    /\ UNCHANGED <<rcon, stdin, awaiting>>

NextSnbt == parseSNBT

SpecSnbt == InitSnbt /\ [][NextSnbt]_vars

\* ------------------------------------------------------------------ C1
\* The bytes of the stream delivered so far, and the packets whole in them.
Delivered(w) == Len(Flatten(stream)) - Len(w[1])

RECURSIVE Whole(_, _)
Whole(ps, n) ==
    IF ps = <<>> \/ Len(StreamPacket(Head(ps))) > n THEN 0
    ELSE 1 + Whole(Tail(ps), n - Len(StreamPacket(Head(ps))))

Expected(i) == <<stream[i], ResponseBody(stream[i])>>

\* C1: reassembly is chunking-independent. Whatever the cut, a handleData call
\* decodes exactly the packets of the stream that its chunk completed, in stream
\* order, and leaves in the buffer exactly the bytes after the last whole packet;
\* so over all calls the k packets are decoded in order, and the buffer is empty
\* once the last chunk is in.
C1_ChunkingIndependent ==
    [][LET before == Whole(stream, Delivered(wire))
           after  == Whole(stream, Delivered(wire'))
           whole  == Len(Flatten(SubSeq(stream, 1, after)))
       IN  /\ decoded' = [i \in 1..(after - before) |-> Expected(before + i)]
           /\ buffer' = SubSeq(Flatten(stream), whole + 1, Delivered(wire'))
           /\ wire'[1] = <<>> => buffer' = <<>>]_vars

\* C1 witness: a read completed a packet and ended inside the header (length or
\* id field) of the next one, which waits in the buffer.
C1_Witness ==
    /\ Len(stream) >= 2
    /\ Len(decoded) = 1
    /\ Len(buffer) \in 1..7
    /\ Whole(stream, Delivered(wire)) = 1

\* ------------------------------------------------------------------ C2
CommandCalls == {c \in DOMAIN calls : calls[c].type = CommandType}

\* C2: with several requests pending at once and the responses delivered in any
\* order, every call that resolved holds the body of the packet that carried its
\* own request id (the peer answers id i with ResponseBody(i), a different body
\* for every id), never the body of another call's response.
C2_OwnBody ==
    \A c \in DOMAIN calls :
        calls[c].st = "resolved" =>
            /\ calls[c].id >= 1
            /\ calls[c].val = ResponseBody(calls[c].id)

\* C2 witness: three commands were pending together; the third was answered
\* first, the second has just been answered, the first still waits.
C2_Witness ==
    \E c1, c2, c3 \in CommandCalls :
        /\ c1 < c2 /\ c2 < c3
        /\ calls[c1].st = "pending"
        /\ calls[c2].st = "resolved"
        /\ calls[c3].st = "resolved"
        /\ decoded = <<<<calls[c2].id, calls[c2].val>>>>

\* ------------------------------------------------------------------ C3
Pending == {c \in DOMAIN calls : calls[c].st = "pending"}

AllClosed(cs) ==
    \A c \in Pending : cs[c].st = "rejected" /\ cs[c].err = "ConnectionClosed"

\* C3: disconnect() with N >= 1 requests pending rejects all of them with
\* ConnectionClosed as part of the call and leaves the pending map empty.
C3_DisconnectRejectsPending ==
    [][(disconnect /\ Pending # {}) => (DOMAIN queue' = {} /\ AllClosed(calls'))]_vars

\* ------------------------------------------------------------------ C4
\* C4: when a socket reports an error or closes while requests are outstanding,
\* every pending request is rejected with ConnectionClosed and the pending map
\* is emptied.
C4_SocketDropRejectsPending ==
    [][((\E n \in Sockets : onError(n) \/ onClose(n)) /\ DOMAIN queue # {})
          => (AllClosed(calls') /\ DOMAIN queue' = {})]_vars

\* ------------------------------------------------------------------ C5
\* C5: sendCommand outside Ready (the authenticated flag is false) fails, writes
\* no packet and adds no entry to the pending map.
C5_SendCommandNeedsReady ==
    [][((\E cmd \in Commands : sendCommand(cmd)) /\ ~isAuthenticated)
          => /\ queue' = queue
             /\ calls'[Len(calls')].st = "rejected"
             /\ calls'[Len(calls')].buf = <<>>]_vars

\* ------------------------------------------------------------------ C6
TimedOut == {c \in DOMAIN calls : calls[c].st = "rejected" /\ calls[c].err = "Timeout"}

\* C6: the timer of a pending request removes it from the pending map and rejects
\* it with Timeout; packets that carry the id of a timed-out request are dropped:
\* a read that decodes only such packets settles no waiter and leaves the pending
\* map, the promises and the authenticated flag as they were.
C6_TimeoutThenLateDropped ==
    [][/\ \A c \in DOMAIN calls :
            (onTimeout(c) /\ calls[c].st = "pending")
               => /\ calls'[c].st = "rejected"
                  /\ calls'[c].err = "Timeout"
                  /\ calls[c].id \notin DOMAIN queue'
       /\ (/\ decoded' # <<>>
           /\ \A i \in DOMAIN decoded' :
                 \E c \in TimedOut : calls[c].id = decoded'[i][1])
             => /\ calls' = calls
                /\ queue' = queue
                /\ conn' = conn
                /\ isAuthenticated' = isAuthenticated]_vars

\* C6 witness: the packet just decoded carries the id of a request that had
\* timed out, while another request is still waiting.
C6_Witness ==
    /\ Len(decoded) = 1
    /\ \E c \in TimedOut : calls[c].id = decoded[1][1]
    /\ Pending # {}

\* ------------------------------------------------------------------ C7
AuthIds(n) == {calls[c].id : c \in {d \in DOMAIN calls :
                                      calls[d].type = AuthType /\ calls[d].conn = n}}

C8_AuthFailureRejectsConnect ==
    [][\A n \in Sockets :
          (/\ conn[n] = "pending"
           /\ \E c \in Pending : calls[c].type = AuthType /\ calls[c].conn = n
           /\ \E i \in DOMAIN decoded' : decoded'[i][1] = -1)
             => (conn'[n] = "AuthFailed" /\ ~isAuthenticated')]_vars

\* ------------------------------------------------------------------ C9
Transmitted == {c \in DOMAIN calls : calls[c].buf # <<>>}

\* C9: the first request transmitted has id 1 and every later one an id above
\* all ids used before; the ids used are below the counter; a pending entry is
\* filed under the id of its own request, so no two pending requests share an id
\* and no send has overwritten an entry.
C9_IdsIncrease ==
    /\ \A c \in Transmitted :
          /\ calls[c].id >= 1
          /\ calls[c].id < requestId
          /\ (\A d \in Transmitted : d >= c) => calls[c].id = 1
    /\ \A c, d \in Transmitted : c < d => calls[c].id < calls[d].id
    /\ \A id \in DOMAIN queue : queue[id] \in Transmitted /\ calls[queue[id]].id = id
    /\ \A c \in Transmitted :
          (calls[c].st = "pending") => (MapHas(queue, calls[c].id) /\ queue[calls[c].id] = c)

\* C9 witness: three requests are pending at once.
C9_Witness == Cardinality(DOMAIN queue) >= 3

\* ----------------------------------------------------------------- C10
\* The value of four bytes, least significant first, as an unsigned number.
Unsigned(b) == b[1] + 256 * b[2] + 65536 * b[3] + 16777216 * b[4]

\* C10: every packet written is the 4-byte little-endian length bodyLength + 10,
\* the 4-byte little-endian id, the 4-byte little-endian type, the body bytes and
\* two zero bytes: length + 4 bytes in all.
C10_WireLayout ==
    \A c \in Transmitted :
        LET b == calls[c].buf
            n == Len(calls[c].body)
        IN  /\ Len(b) = (n + 10) + 4
            /\ Unsigned(SubSeq(b, 1, 4)) = n + 10
            /\ Unsigned(SubSeq(b, 5, 8)) = calls[c].id
            /\ Unsigned(SubSeq(b, 9, 12)) = calls[c].type
            /\ SubSeq(b, 13, 12 + n) = calls[c].body
            /\ b[n + 13] = 0 /\ b[n + 14] = 0

\* C10 witness: an auth packet and commands with an empty and a two-byte body
\* have been written.
C10_Witness ==
    /\ \E c \in Transmitted : calls[c].type = AuthType
    /\ \E c \in Transmitted : calls[c].type = CommandType /\ calls[c].body = <<>>
    /\ \E c \in Transmitted : calls[c].type = CommandType /\ Len(calls[c].body) = 2

\* ----------------------------------------------------------------- C11
\* The fields of the client and the promises it handed out.
Session == <<socket, requestId, isAuthenticated, queue, buffer, conn, calls>>

\* A state in which disconnect() has nothing left to do.
Disconnected == socket = 0 \/ sockSt[socket] = "closing"

\* C11: disconnect() is idempotent. It raises no error in any state (never
\* connected, already disconnected, socket already closed), it changes nothing
\* when there is no socket or the socket was already destroyed, and it leaves a
\* state in which a further call changes nothing.
C11_DisconnectIdempotent ==
    [][disconnect =>
          /\ ~fault'
          /\ Session' = Session
          /\ Disconnected => sockSt' = sockSt
          /\ Disconnected']_vars

\* C11 witness: disconnect() was called on a socket that was still connecting
\* (its connect() is still pending, nothing was sent): a second call can follow.
C11_Witness ==
    /\ socket = 1
    /\ sockSt[1] = "closing"
    /\ conn[1] = "pending"
    /\ calls = <<>>

\* ----------------------------------------------------------------- C12
\* C12: no inbound byte sequence makes the client raise an unhandled fault:
\* handleData returns normally for every chunk, whatever length the frames
\* declare (negative, zero, or less than the 10 bytes of id, type and pad).
C12_NoUnhandledFault == ~fault

\* ----------------------------------------------------------------- C19
\* C19: from any state an explicit disconnect() or an error of the session's
\* socket moves the session to Closed: when the call or the 'error' listener
\* has returned, the authenticated flag is false.
C19_ClosedOnDisconnectOrError ==
    [][(disconnect \/ \E n \in Sockets : n = socket /\ onError(n))
          => ~isAuthenticated']_vars

\* ----------------------------------------------------------------- C20
\* The ids of the packets decoded by a read that are pending in the map q.
Matched(ds, q) == {ds[i][1] : i \in DOMAIN ds} \cap DOMAIN q

\* The body of the first packet of ds that carries id.
FirstBody(ds, id) ==
    ds[CHOOSE i \in DOMAIN ds :
          ds[i][1] = id /\ \A j \in DOMAIN ds : ds[j][1] = id => i <= j][2]

\* C20: a read that decodes packets delivers to the waiter of every pending id
\* it decoded the body of the packet with that id, cancels that waiter's timer
\* and removes that entry and no other; every other waiter and timer is left
\* alone, and the id counter and the socket do not change. When no decoded id is
\* pending, no waiter settles and the pending map, the timers, the id counter
\* and the authenticated flag are unchanged.
C20_CorrelationFrame ==
    [][decoded' # <<>> =>
          LET M == Matched(decoded', queue)
              settled == {queue[id] : id \in M}
          IN  /\ queue' = [i \in DOMAIN queue \ M |-> queue[i]]
              /\ \A id \in M :
                    /\ calls[queue[id]].st = "pending"
                    /\ calls'[queue[id]].st = "resolved"
                    /\ calls'[queue[id]].val = FirstBody(decoded', id)
                    /\ ~calls'[queue[id]].timer
              /\ DOMAIN calls' = DOMAIN calls
              /\ \A c \in DOMAIN calls \ settled : calls'[c] = calls[c]
              /\ requestId' = requestId
              /\ socket' = socket
              /\ M = {} => /\ queue' = queue
                           /\ calls' = calls
                           /\ conn' = conn
                           /\ isAuthenticated' = isAuthenticated]_vars

\* C20 witness: the read decoded one packet whose id was pending; its waiter
\* holds the body and has no timer, and another request is still in the map
\* with its timer running.
C20_Witness ==
    /\ Len(decoded) = 1
    /\ \E c \in DOMAIN calls :
          /\ calls[c].id = decoded[1][1]
          /\ calls[c].st = "resolved"
          /\ calls[c].val = decoded[1][2]
          /\ ~calls[c].timer
    /\ \E id \in DOMAIN queue : calls[queue[id]].timer

\* ----------------------------------------------------------------- C13
\* The file read is the encoding of a Compound cut short by at least one byte.
Truncated ==
    /\ parsed.st # "none"
    /\ tree.t = 10
    /\ Len(reader.buffer) < Len(Encode(tree))

\* C13: for every well-formed file and every proper prefix of it (the empty
\* file included) decode fails, hands back no value, and leaves the cursor
\* inside the buffer: it never moved past the end.
C13_TruncatedFailsInBounds ==
    Truncated =>
        /\ parsed.st = "thrown"
        /\ parsed.content = <<>>
        /\ reader.offset <= Len(reader.buffer)

\* ----------------------------------------------------------------- C14
\* C14: the root tag must be a Compound. A file whose first byte is not 10 (End
\* and the scalar types included) makes decode fail, it returns neither a value
\* nor null; the whole file of a Compound returns the body of the Compound.
C14_RootMustBeCompound ==
    parsed.st # "none" =>
        /\ (reader.buffer # <<>> /\ reader.buffer[1] # 10) => parsed.st = "thrown"
        /\ (tree.t = 10 /\ reader.buffer = Encode(tree))
              => (parsed.st = "returned" /\ parsed.v.k = "object")

\* ----------------------------------------------------------------- C15
\* The whole file of a Compound has been read.
WholeFile ==
    /\ parsed.st # "none"
    /\ tree.t = 10
    /\ reader.buffer = Encode(tree)

\* C15: for every tagged value tree, over all tag kinds and with lists and
\* compounds nested three levels and more, decoding its encoding returns a
\* value equal to the tree.
C15_RoundTrip ==
    WholeFile => (parsed.st = "returned" /\ parsed.v = Generic(tree))

\* ----------------------------------------------------------------- C16
\* The decimal text of a long.
LongText(l) == (IF l.neg THEN <<45>> ELSE <<>>) \o Digits(l.digits)

\* The file holds one member, a long or an array of one long.
OneLong ==
    /\ WholeFile
    /\ Len(tree.items) = 1
    /\ tree.items[1].t \in {4, 12}

\* C16: a long, and an element of a long array, is decoded with all of its 64
\* bits and the content answered by read-nbt writes it digit for digit:
\* 9223372036854775807 is rendered as 9223372036854775807.
C16_LongExact ==
    OneLong =>
        /\ parsed.st = "returned"
        /\ parsed.v = Generic(tree)
        /\ LET m == tree.items[1]
               name == <<123, 10, 32, 32>> \o Quote(tree.names[1]) \o <<58, 32>>
           IN  parsed.content =
                  IF m.t = 4 THEN name \o LongText(m) \o <<10, 125>>
                  ELSE name \o <<91, 10>> \o Spaces(4) \o LongText(m.items[1])
                            \o <<10, 32, 32, 93, 10, 125>>

\* ----------------------------------------------------------------- C17
\* C17: parseSNBT never throws to its caller: every call on a text returns, and
\* when the rewritten text is not strict JSON the catch block reports and the
\* call returns null.
C17_NeverThrows ==
    converted.st # "none" =>
        /\ converted.st = "returned"
        /\ ~try(snbt).ok =>
              (converted.v = JsNull /\ converted.report \in {"context", "partial"})

\* "not valid { at all" was converted to null and the catch block wrote the
\* context of the position the message named.
C17_Witness ==
    /\ snbt = Malformed
    /\ converted.st = "returned"
    /\ converted.v = JsNull
    /\ converted.report = "context"

\* ----------------------------------------------------------------- C18
\* {Health: 20, Pos: [1.5, 64, -2.25],
\*  Inventory: [{Slot: 0, id: "minecraft:stone", Count: 1}]}
ExampleValue ==
    JsObject(<<<<72, 101, 97, 108, 116, 104>>, <<80, 111, 115>>,
               <<73, 110, 118, 101, 110, 116, 111, 114, 121>>>>,
             <<JsNumber(Decimal(FALSE, <<50>>, 1)),
               JsArray(<<JsNumber(Decimal(FALSE, <<49, 53>>, -1)),
                         JsNumber(Decimal(FALSE, <<54, 52>>, 0)),
                         JsNumber(Decimal(TRUE, <<50, 50, 53>>, -2))>>),
               JsArray(<<JsObject(<<<<83, 108, 111, 116>>, <<105, 100>>, <<67, 111, 117, 110, 116>>>>,
                                  <<JsNumber(Decimal(FALSE, <<48>>, 0)),
                                    JsString(<<109, 105, 110, 101, 99, 114, 97, 102, 116, 58,
                                               115, 116, 111, 110, 101>>),
                                    JsNumber(Decimal(FALSE, <<49>>, 0))>>)>>)>>)

\* C18: the example text converts to the example value: the suffixed literals
\* are plain numbers, the quoted string with a colon is intact, and the keys
\* keep their names.
C18_ExampleConverts ==
    (snbt = Example /\ converted.st # "none") =>
        converted = Converted("returned", ExampleValue, "none", <<>>, 0)

\* The example text was converted and the call returned an object.
C18_Witness ==
    /\ snbt = Example
    /\ converted.st = "returned"
    /\ converted.v.k = "object"

\* ----------------------------------------------------------------- C21
\* The reference loop on the bytes buf: while at least 4 bytes are buffered,
\* peek the declared length, stop when fewer than length + 4 bytes are present,
\* else slice one frame. It says nothing of a negative length (defined is
\* FALSE from there on).
RECURSIVE Reference(_, _)
Reference(buf, frames) ==
    IF Len(buf) < 4 THEN [frames |-> frames, rest |-> buf, defined |-> TRUE]
    ELSE LET len == readInt32LE(buf, 0)
         IN  IF len < 0 THEN [frames |-> frames, rest |-> buf, defined |-> FALSE]
             ELSE IF Len(buf) - 4 < len
             THEN [frames |-> frames, rest |-> buf, defined |-> TRUE]
             ELSE Reference(SubSeq(buf, len + 5, Len(buf)),
                            Append(frames, SubSeq(buf, 1, len + 4)))

\* The bytes the read event of a step delivered.
Chunk == SubSeq(wire[1], 1, Len(wire[1]) - Len(wire'[1]))

\* C21: the loop of handleData slices the frames the reference loop slices, at
\* the same read events: after every read it has decoded as many packets as the
\* reference loop slices from the same bytes, each with the id and body of its
\* frame, and it keeps the same residual bytes; also for a complete frame of
\* fewer than 12 bytes.
C21_SameAsReference ==
    [][LET ref == Reference(buffer \o Chunk, <<>>)
       IN  ref.defined =>
              /\ ~fault'
              /\ buffer' = ref.rest
              /\ Len(decoded') = Len(ref.frames)
              /\ \A i \in DOMAIN ref.frames :
                    Len(ref.frames[i]) >= 12 =>
                       decoded'[i] = <<readInt32LE(ref.frames[i], 4),
                                       toString(ref.frames[i], 12, Len(ref.frames[i]) - 2)>>]_vars

\* ----------------------------------------------------------------- C22
\* The bytes of r.buffer that the read m takes at r.offset: the width of the
\* scalar; for a string the two bytes of the length and the bytes decoded.
Consumed(m, r) ==
    CASE m = "readByte" -> 1
      [] m = "readShort" -> 2
      [] m \in {"readInt", "readFloat"} -> 4
      [] m \in {"readLong", "readDouble"} -> 8
      [] m = "readString" ->
           2 + Len(toString(r.buffer, r.offset + 2,
                            r.offset + 2 + readUInt16BE(r.buffer, r.offset)))

\* C22: the cursor stays inside the buffer, 0 <= offset <= length, and every
\* primitive read either returns with the offset advanced by the bytes it
\* consumed or fails with the offset where it was.
C22_CursorInBounds ==
    [][/\ reader'.offset >= 0
       /\ reader'.offset <= Len(reader'.buffer)
       /\ parsed'.st = "thrown" => reader'.offset = reader.offset
       /\ parsed'.st = "returned" =>
             reader'.offset = reader.offset + Consumed(parsed'.method, reader)]_vars

\* ----------------------------------------------------------------- C23
\* The file read is a Compound (name "") whose first member, of type t, is
\* named "a": its payload starts at byte 8.
FirstMember(t) ==
    LET b == reader.buffer
    IN  /\ parsed.st # "none"
        /\ Len(b) >= 8
        /\ SubSeq(b, 1, 3) = <<10, 0, 0>>
        /\ b[4] = t
        /\ SubSeq(b, 5, 7) = <<0, 1, 97>>

\* The file holds a tag identifier outside 1..12 where a value tag is expected:
\* as the type of the first member (0 there is the end marker), or as the
\* element type of the list that is the first member, End with a count of 0
\* excepted.
BadTag ==
    LET b == reader.buffer
    IN  \/ \E t \in 13..255 : FirstMember(t)
        \/ /\ FirstMember(9)
           /\ Len(b) >= 12
           /\ \/ b[8] \notin 0..12
              \/ b[8] = 0 /\ readInt32BE(b, 8) > 0

\* C23: decode fails whenever it meets a tag identifier outside 1..12 where a
\* value tag is expected, as the type byte of a Compound entry or as the
\* element type of a List (also of an empty list, and End with a positive
\* count); it returns no value built from such a tag.
C23_UnknownTagFails ==
    BadTag => (parsed.st = "thrown" /\ parsed.content = <<>>)

\* ----------------------------------------------------------------- C24
\* The first member of the file has a length field that implies a read out of
\* range: an array or list of bytes, ints or longs whose count is negative or
\* needs more bytes than follow it, or a string whose length prefix is larger
\* than the bytes that follow it; or the root is such a string.
OutOfRange ==
    LET b == reader.buffer
        bad(count, width, at) == count < 0 \/ count * width > Len(b) - at
    IN  \/ FirstMember(7) /\ Len(b) >= 11 /\ bad(readInt32BE(b, 7), 1, 11)
        \/ FirstMember(11) /\ Len(b) >= 11 /\ bad(readInt32BE(b, 7), 4, 11)
        \/ FirstMember(12) /\ Len(b) >= 11 /\ bad(readInt32BE(b, 7), 8, 11)
        \/ FirstMember(9) /\ Len(b) >= 12 /\ b[8] = 1 /\ bad(readInt32BE(b, 8), 1, 12)
        \/ FirstMember(8) /\ Len(b) >= 9 /\ readUInt16BE(b, 7) > Len(b) - 9
        \/ /\ parsed.st # "none"
           /\ Len(b) >= 5
           /\ SubSeq(b, 1, 3) = <<8, 0, 0>>
           /\ readUInt16BE(b, 3) > Len(b) - 5

\* C24: decode fails whenever a length field implies an out-of-range read (a
\* negative count, a count that needs more bytes than remain, a string length
\* prefix larger than the remaining bytes); it returns no empty or shortened
\* container or string for such a file.
C24_LengthOutOfRangeFails ==
    OutOfRange => (parsed.st = "thrown" /\ parsed.content = <<>>)

\* ----------------------------------------------------------------- C25
\* The names of the members written in b from byte i on, when they are all
\* ints and the end marker is the last byte of b (ok is FALSE otherwise).
RECURSIVE WireNames(_, _, _)
WireNames(b, i, names) ==
    IF i = Len(b) /\ b[i] = 0 THEN [ok |-> TRUE, names |-> names]
    ELSE IF i + 2 > Len(b) \/ b[i] # 3 THEN [ok |-> FALSE, names |-> names]
    ELSE LET len == readUInt16BE(b, i)
         IN  IF i + 2 + len + 4 > Len(b) THEN [ok |-> FALSE, names |-> names]
             ELSE WireNames(b, i + 3 + len + 4,
                            Append(names, SubSeq(b, i + 3, i + 2 + len)))

\* The file read is a Compound of int members, the i-th with the value i.
IntMembers ==
    /\ parsed.st # "none"
    /\ Len(reader.buffer) >= 4
    /\ SubSeq(reader.buffer, 1, 3) = <<10, 0, 0>>
    /\ WireNames(reader.buffer, 4, <<>>).ok

\* C25: Compound decoding reads (type, name, value) triples up to the end
\* marker and returns a map that holds every decoded name, in the order of its
\* first appearance on the wire, with the value decoded last under it; the
\* cursor ends one byte past the end marker.
C25_CompoundInWireOrder ==
    IntMembers =>
        LET wire_ == WireNames(reader.buffer, 4, <<>>).names
            firsts == {i \in DOMAIN wire_ : \A j \in 1..(i - 1) : wire_[j] # wire_[i]}
            nth(k) == CHOOSE i \in firsts : Cardinality({j \in firsts : j < i}) = k - 1
            last(name) == CHOOSE i \in DOMAIN wire_ :
                             wire_[i] = name /\ \A j \in DOMAIN wire_ : wire_[j] = name => j <= i
        IN  /\ parsed.st = "returned"
            /\ parsed.v.k = "object"
            /\ parsed.v.names = [k \in 1..Cardinality(firsts) |-> wire_[nth(k)]]
            /\ parsed.v.items = [k \in 1..Cardinality(firsts) |->
                                    JsNumber(FromInt(last(wire_[nth(k)])))]
            /\ reader.offset = Len(reader.buffer)

\* ----------------------------------------------------------------- C26
\* C26: a request that send wrote is settled exactly once. A settled request
\* stays as it is; a request is resolved only by a read that decodes its id,
\* with the body of the first packet carrying it, and rejected only by its
\* timer, with Timeout; and an id is in the pending map exactly when its
\* request is unsettled and its timer armed.
C26_SettledOnce ==
    [][\A c \in DOMAIN calls' :
          calls'[c].buf # <<>> =>
             /\ MapHas(queue', calls'[c].id)
                   <=> (calls'[c].st = "pending" /\ calls'[c].timer)
             /\ MapHas(queue', calls'[c].id) => queue'[calls'[c].id] = c
             /\ c \in DOMAIN calls =>
                   /\ calls[c].st # "pending" =>
                         /\ calls'[c].st = calls[c].st
                         /\ calls'[c].val = calls[c].val
                         /\ calls'[c].err = calls[c].err
                   /\ (calls[c].st = "pending" /\ calls'[c].st = "resolved") =>
                         /\ calls[c].id \in Matched(decoded', queue)
                         /\ calls'[c].val = FirstBody(decoded', calls[c].id)
                   /\ (calls[c].st = "pending" /\ calls'[c].st = "rejected") =>
                         /\ calls[c].timer
                         /\ calls'[c].err = "Timeout"
                         /\ decoded' = <<>>]_vars

\* C26 witness: of three requests written, one was resolved by its response,
\* one rejected by its timer, and one is still in the pending map.
C26_Witness ==
    \E c1, c2, c3 \in Transmitted :
        /\ calls[c1].st = "resolved" /\ ~calls[c1].timer
        /\ calls[c2].st = "rejected" /\ calls[c2].err = "Timeout"
        /\ calls[c3].st = "pending" /\ MapHas(queue, calls[c3].id)
        /\ ~MapHas(queue, calls[c1].id)
        /\ ~MapHas(queue, calls[c2].id)

\* ----------------------------------------------------------------- C27
InQueue(c) ==
    c \in DOMAIN calls /\ MapHas(queue, calls[c].id) /\ queue[calls[c].id] = c

Removed(c) ==
    c \in DOMAIN calls /\ ~MapHas(queue, calls[c].id) /\ calls[c].st # "pending"

\* C27: every request that send filed in the pending map is eventually
\* settled and out of the map, whatever the socket does afterwards (error,
\* close, disconnect, a reconnect); and the map ends up empty for good.
C27_EventuallySettled ==
    /\ \A c \in 1..(MaxConnects + MaxCommands) : InQueue(c) ~> Removed(c)
    /\ <>[](queue = <<>>)

\* C27 witness: a request was rejected by its timer after its socket had
\* closed, and the map is empty.
C27_Witness ==
    \E c \in Transmitted :
        /\ calls[c].st = "rejected" /\ calls[c].err = "Timeout"
        /\ sockSt[calls[c].sock] = "closed"
        /\ queue = <<>>

\* ----------------------------------------------------------------- C28
\* C28: while isAuthenticated is true the socket reference is not null and
\* the auth request written to that very socket was resolved, also after a
\* connect() on a client whose earlier socket has not emitted close yet.
C28_AuthenticatedOnSocket ==
    isAuthenticated =>
        /\ socket # 0
        /\ \E c \in Transmitted :
              /\ calls[c].type = AuthType
              /\ calls[c].sock = socket
              /\ calls[c].st = "resolved"

\* ----------------------------------------------------------------- C29
\* The connect() call made last, 0 before the first.
LastConnect ==
    IF \E k \in Sockets : conn[k] # "none"
    THEN CHOOSE k \in Sockets :
             conn[k] # "none" /\ \A m \in Sockets : m > k => conn[m] = "none"
    ELSE 0

Failed(k) == k # 0 /\ conn[k] \in {"ConnectFailed", "Timeout", "NotConnected"}

\* C29: once the connect() call made last has failed (transport error, or its
\* auth request timed out or was refused), isAuthenticated does not become
\* true in a step that is not after a new connect(): neither a late auth
\* response nor a response after the error event sets it.
C29_FailedStaysUnauthenticated ==
    [][(Failed(LastConnect) /\ ~isAuthenticated) => ~isAuthenticated']_vars

\* ----------------------------------------------------------------- C30
\* C30: the 'send-command' handler delivers a command at most once: when the
\* handler's await of a send() that wrote the command to the socket ends,
\* whether resolved or rejected (Timeout), nothing is written to stdin.
C30_DeliveredAtMostOnce ==
    [][\A c \in awaiting \ awaiting' :
          calls[c].buf # <<>> => stdin' = stdin]_vars

====
